---- MODULE Spec2Model ----
(***************************************************************************)
(* Model of the archive construction and identity-hashing subsystem of     *)
(* zenodo-publisher (release_tool).                                        *)
(*                                                                         *)
(*   Spec      the extract / tree-hash / tar conversion of a project zip:  *)
(*             process_project_archive (archive_operation.py) and the      *)
(*             standalone _run_archive pipeline (pipeline/archive.py),     *)
(*             down to the git, tar and gzip subprocess calls.             *)
(*   SpecArgs  the merge of default and user tool arguments: dedup_args    *)
(*             (config_schema.py) under _build_tar_args / _build_gzip_args *)
(*             (config_transform_common.py).  An argument is the sequence  *)
(*             of its characters.                                          *)
(*   SpecIds   compute_hashes and _compute_identifiers                     *)
(*             (archive_operation.py) on an entry list, run again on the   *)
(*             same entries in another order.  A hex digest is a sequence  *)
(*             of numbers and the digest functions are collision-free.     *)
(*   SpecOp    archive(config, tag_name) with _postprocess                 *)
(*             (archive_operation.py): the main-file copy, git archive,    *)
(*             the conversion of Spec run as process_project_archive,      *)
(*             compute_hashes and the identifiers, over a file system      *)
(*             whose paths are pairs of directory and extension.           *)
(*   SpecSign  sign_files and gpg_sign_file (gpg_operations.py) on a list  *)
(*             of archive entries.  A file name is the sequence of its     *)
(*             dot-separated parts.                                        *)
(*   SpecConfirm  _prompt, _make_validator and _confirm                    *)
(*             (pipeline/release.py).  A string is the sequence of its     *)
(*             characters.                                                 *)
(*   SpecRelease  run_release and the steps of _run_release                *)
(*             (pipeline/release.py), _step_zenodo in detail.              *)
(*   SpecPublish  publish_new_version (zenodo_operations.py), request by   *)
(*             request.                                                    *)
(***************************************************************************)
EXTENDS Integers, Sequences, FiniteSets, TLC

VARIABLES
    entry_point,     \* which coordinating function runs
    tree_algos,      \* requested tree algorithms, in call order
    archive_format,  \* "zip" | "tar" | "tar.gz"
    zip_tree,        \* files of the tagged tree held by the zip
    zip_layout,      \* "rootdir": one top-level directory, "flat": otherwise
    zip_exists,      \* the file at zip_path exists
    tmp,             \* scratch TemporaryDirectory: "none" | "live" | "removed"
    content_dir,     \* entries currently present in content_dir
    tar_tree,        \* entries packaged into the tar
    produced,        \* converted files on disk: subset of {"tar", "tar.gz"}
    extract_count,   \* number of extract_zip invocations
    tree_hashes,     \* {algo: hash} built so far
    tree_calls,      \* record of each finished compute_tree_hash call
    idx,             \* position in the loop over tree_algos
    pc,              \* position in the running function
    error,           \* exception that reached the caller, or "none"
    failed_at,       \* step whose failure raised it, or "none"
    content_root,    \* what extract_zip returned: "subdir" | "dest_dir"
    ret,             \* value returned to the caller
    source,          \* where _step_archive takes the tag from
    clone,           \* scratch clone of archive_zip_remote_project:
                     \* "none" | "live" | "removed"
    os_environ,      \* os.environ of the process
    tool_envs,       \* tool and env= of every tar / gzip invocation, in order
    \* -- argument merging (config transforms)
    tool,            \* whose arguments are built: "tar" | "gzip"
    value,           \* the user's extra arguments, in order
    merged,          \* list returned by _build_tar_args / _build_gzip_args
    warned,          \* a reproducibility warning was issued
    args_pc,         \* "config" | "built"
    \* -- hashes and identifiers
    hash_algorithms, \* config.hash_algorithms, in order
    id_types,        \* set(config.zenodo_identifier_types)
    results,         \* the entry list handed to compute_hashes / _compute_identifiers
    identifiers,     \* what _compute_identifiers returned last
    prev,            \* the run before: its entry order and what it returned
    ids_pc,          \* "entries" | "hashed" | "identified" | "raised"
    \* -- archive(config, tag_name)
    config,          \* the configuration attributes archive() reads
    fs,              \* files on disk: path -> content, a path being <<dir, ext>>
    archive_results, \* the local list `results` of archive()
    archive_pc,      \* position in archive() / _postprocess
    archive_error,   \* exception archive() raised, or "none"
    archive_ret,     \* what archive() returned to its caller
    \* -- sign_files
    archived_files,  \* the entries handed to sign_files, in order
    extra_args,      \* config.gpg_extra_args
    overwrite,       \* config.gpg_overwrite
    sig_files,       \* signature files on disk: their paths
    signatures,      \* the local list `signatures` of sign_files
    sign_pc,         \* position in sign_files
    sign_error,      \* exception sign_files raised, or "none"
    sign_ret,        \* what sign_files returned
    \* -- _confirm
    prompt_validation_level,  \* config.prompt_validation_level
    project_name,    \* config.project_name, a string as a sequence of characters
    typed,           \* what the user typed at the prompt
    response,        \* the response _prompt returned
    confirmed,       \* what _confirm returned
    confirm_pc,      \* position in _confirm
    \* -- _run_release
    release_config,  \* the options of config that _run_release reads
    release_pc,      \* the step _run_release is in
    steps,           \* the steps started so far, in order
    release_error,   \* exception that left _run_release, or "none"
    is_up_to_date,   \* what publisher.is_up_to_date returned
    publish_confirmed, \* the answer to "Publish version ?"
    publish_calls,   \* calls of publisher.publish_new_version
    zenodo_ret,      \* what _step_zenodo returned
    \* -- publish_new_version
    pub_files,       \* archived_files: the files to upload, by extension
    stale_draft,     \* a draft of the record is open when the call starts
    draft,           \* the new version's deposition on the service
    pub_steps,       \* the steps of publish_new_version completed so far
    uploaded,        \* how many of the sorted files were uploaded
    publish_count,   \* successful publish requests
    pub_pc,          \* position in publish_new_version
    pub_error,       \* exception that left publish_new_version, or "none"
    pub_ret          \* what publish_new_version returned

archive_vars == <<entry_point, tree_algos, archive_format, zip_tree, zip_layout,
                  zip_exists, tmp, content_dir, tar_tree, produced,
                  extract_count, tree_hashes, tree_calls, idx, pc, error,
                  failed_at, content_root, ret, source, clone, os_environ,
                  tool_envs>>

args_vars == <<tool, value, merged, warned, args_pc>>

ids_vars == <<hash_algorithms, id_types, results, identifiers, prev, ids_pc>>

op_vars == <<config, fs, archive_results, archive_pc, archive_error, archive_ret>>

sign_vars == <<archived_files, extra_args, overwrite, sig_files, signatures,
               sign_pc, sign_error, sign_ret>>

confirm_vars == <<prompt_validation_level, project_name, typed, response,
                  confirmed, confirm_pc>>

release_vars == <<release_config, release_pc, steps, release_error,
                  is_up_to_date, publish_confirmed, publish_calls, zenodo_ret>>

\* The variables of the release pipeline around archive().
publish_vars == <<pub_files, stale_draft, draft, pub_steps, uploaded,
                  publish_count, pub_pc, pub_error, pub_ret>>

pipeline_vars == <<sign_vars, confirm_vars, release_vars, publish_vars>>

vars == <<archive_vars, args_vars, ids_vars, op_vars, pipeline_vars>>

----------------------------------------------------------------------------
(* Bounds *)

MaxTreeAlgos == 2

MaxFiles == 2

MaxUserArgs == 2

MaxEntries == 2

MaxContent == 2

MaxAlgorithms == 2

\* Characters of a project name
MaxName == 2

\* Characters the user types at a prompt
MaxTyped == 3

FileNames == <<"a.txt", "b.txt", "c.txt", "d.txt">>

Files == {FileNames[i] : i \in 1..MaxFiles}

----------------------------------------------------------------------------
(* Constants of the program *)

TREE_ALGORITHMS == ("tree" :> "sha1") @@ ("tree256" :> "sha256")

TreeAlgoNames == DOMAIN TREE_ALGORITHMS

ArchiveFormats == {"zip", "tar", "tar.gz"}

GIT_DIR == ".git"

\* How a subprocess can fail: non-zero exit, or executable not found.
ToolFaults == {"nonzero", "missing"}

\* run_git_command wraps CalledProcessError only.
GitFailure(fault) == IF fault = "nonzero" THEN "GitError" ELSE "FileNotFoundError"

\* run_cmd(..., check=True) as used by pack_tar: nothing is wrapped.
PackFailure(fault) == IF fault = "nonzero" THEN "CalledProcessError" ELSE "FileNotFoundError"

----------------------------------------------------------------------------
(* Pure helpers *)

SeqsUpTo(S, n) == UNION {[1..k -> S] : k \in 0..n}

Range(s) == {s[i] : i \in DOMAIN s}

NoDuplicates(s) == \A i, j \in DOMAIN s : i # j => s[i] # s[j]

\* git write-tree after `git add --all`: the root tree of everything staged,
\* in the repository's object format.  The .git directory is never staged.
TreeHash(dir, object_format) ==
    [ok |-> TRUE, fmt |-> object_format, tree |-> dir \ {GIT_DIR}]

\* Outcome of compute_tree_hash on a directory when no git command fails.
TreeHashOf(dir, object_format) ==
    IF GIT_DIR \in dir
    THEN [ok |-> FALSE, fmt |-> object_format, tree |-> {}]
    ELSE TreeHash(dir, object_format)

need_tar == archive_format \in {"tar", "tar.gz"}

need_extract == tree_algos # <<>> \/ archive_format # "zip"

NoReturn == [path |-> "none", format |-> "none", tree_hashes |-> <<>>]

\* The three branches of _step_archive: --remote URL, --no-cache, local repo.
Sources == {"remote", "no_cache", "local"}

\* The variables the conversion fixes for tar and gzip.
REPRODUCIBLE_ENV == [LC_ALL |-> "C", TZ |-> "UTC", SOURCE_DATE_EPOCH |-> "0"]

\* Environments the process may inherit: none of the three variables set,
\* all of them set to other values, one of them set.
InheritedEnvs ==
    {[PATH |-> "/usr/bin"],
     [PATH |-> "/usr/bin", LC_ALL |-> "fr_FR.UTF-8", TZ |-> "Europe/Paris",
      SOURCE_DATE_EPOCH |-> "1700000000"],
     [PATH |-> "/usr/bin", TZ |-> "Asia/Tokyo"]}

\* A merge in which the inherited value wins.
InheritedWins(environ) ==
    [k \in DOMAIN environ \cup DOMAIN REPRODUCIBLE_ENV |->
        IF k \in DOMAIN environ THEN environ[k] ELSE REPRODUCIBLE_ENV[k]]

\* `env = {**os.environ, "LC_ALL": "C", "TZ": "UTC", "SOURCE_DATE_EPOCH": "0"}`
PackEnv(environ) ==
    [k \in DOMAIN environ \cup DOMAIN REPRODUCIBLE_ENV |->
        IF k \in DOMAIN REPRODUCIBLE_ENV THEN REPRODUCIBLE_ENV[k] ELSE environ[k]]

----------------------------------------------------------------------------
(* Initial states: one call of process_project_archive on an existing zip, *)
(* or one run of _run_archive before its snapshot step.                    *)

ArchiveInit ==
    /\ entry_point \in {"process_project_archive", "_run_archive"}
    /\ tree_algos \in SeqsUpTo(TreeAlgoNames, MaxTreeAlgos)
       \* _run_archive keeps its tree algorithms in a dict keyed by name
    /\ (entry_point = "_run_archive" => NoDuplicates(tree_algos))
    /\ archive_format \in ArchiveFormats
    /\ zip_tree \in (SUBSET Files) \ {{}}
    /\ zip_layout \in {"rootdir", "flat"}
    /\ zip_exists = (entry_point = "process_project_archive")
    /\ tmp = "none"
    /\ content_dir = {}
    /\ tar_tree = {}
    /\ produced = {}
    /\ extract_count = 0
    /\ tree_hashes = <<>>
    /\ tree_calls = <<>>
    /\ idx = 1
    /\ pc = "start"
    /\ error = "none"
    /\ failed_at = "none"
    /\ content_root = "none"
    /\ ret = NoReturn
    /\ source \in IF entry_point = "_run_archive" THEN Sources ELSE {"zip_path"}
    /\ clone = "none"
    /\ os_environ \in InheritedEnvs
    /\ tool_envs = <<>>

----------------------------------------------------------------------------
(* Exception propagation: leaving the `with TemporaryDirectory()` block    *)
(* removes the scratch directory before the error reaches the caller.      *)

Raise(kind, step) ==
    /\ pc' = "raised"
    /\ error' = kind
    /\ failed_at' = step
    /\ tmp' = IF tmp = "live" THEN "removed" ELSE tmp

\* The record of the running compute_tree_hash call, closed at its exit.
CloseTreeCall(outcome, dir_after) ==
    [tree_calls EXCEPT ![Len(tree_calls)] =
        [@ EXCEPT !.outcome = outcome, !.after = dir_after]]

----------------------------------------------------------------------------
(* process_project_archive, lines 69-77 *)

\* The guard with its second condition inverted.
NothingToDoInverted == tree_algos = <<>> /\ need_tar

\* `if not tree_algos and not need_tar:`
NothingToDo == tree_algos = <<>> /\ ~need_tar

\* `return zip_path, "zip", tree_hashes`
Passthrough ==
    /\ pc = "start"
    /\ entry_point = "process_project_archive"
    /\ NothingToDo
    /\ pc' = "done"
    /\ ret' = [path |-> "zip", format |-> "zip", tree_hashes |-> tree_hashes]
    /\ UNCHANGED <<args_vars, ids_vars, op_vars, pipeline_vars, source, clone, os_environ, tool_envs, content_root, entry_point, tree_algos, archive_format, zip_tree, zip_layout,
                   zip_exists, tmp, content_dir, tar_tree, produced,
                   extract_count, tree_hashes, tree_calls, idx, error, failed_at>>

\* `with tempfile.TemporaryDirectory() as tmp:`
EnterScratch ==
    /\ pc = "start"
    /\ entry_point = "process_project_archive"
    /\ ~NothingToDo
    /\ tmp' = "live"
    /\ pc' = "extract"
    /\ UNCHANGED <<args_vars, ids_vars, op_vars, pipeline_vars, source, clone, os_environ, tool_envs, content_root, entry_point, tree_algos, archive_format, zip_tree, zip_layout,
                   zip_exists, content_dir, tar_tree, produced,
                   extract_count, tree_hashes, tree_calls, idx, error, failed_at, ret>>

----------------------------------------------------------------------------
(* _run_archive, lines 169-183: _step_archive, then the scratch directory  *)

\* _step_archive has returned the zip: `if need_extract: with
\* tempfile.TemporaryDirectory() ...`, else straight to _step_display.
SnapshotDone ==
    /\ zip_exists' = TRUE
    /\ IF need_extract
       THEN tmp' = "live" /\ pc' = "extract"
       ELSE tmp' = tmp /\ pc' = "display"
    /\ UNCHANGED <<error, failed_at>>

\* _step_archive, local branch: archive_zip_project runs one `git archive`.
StepArchive ==
    /\ pc = "start"
    /\ entry_point = "_run_archive"
    /\ source = "local"
    /\ \/ SnapshotDone
       \/ /\ \E fault \in ToolFaults : Raise(GitFailure(fault), "snapshot")
          /\ UNCHANGED zip_exists
    /\ UNCHANGED <<args_vars, ids_vars, op_vars, pipeline_vars, source, clone, os_environ, tool_envs, content_root, entry_point, tree_algos, archive_format, zip_tree, zip_layout,
                   content_dir, tar_tree, produced,
                   extract_count, tree_hashes, tree_calls, idx, ret>>

\* _step_archive, --no-cache branch: `origin_url = get_remote_url(project_root)`
GetRemoteUrl ==
    /\ pc = "start"
    /\ entry_point = "_run_archive"
    /\ source = "no_cache"
    /\ \/ /\ pc' = "remote"
          /\ UNCHANGED <<tmp, error, failed_at>>
       \/ \E fault \in ToolFaults : Raise(GitFailure(fault), "snapshot")
    /\ UNCHANGED <<args_vars, ids_vars, op_vars, pipeline_vars, source, clone, os_environ, tool_envs, content_root, entry_point, tree_algos, archive_format, zip_tree, zip_layout,
                   zip_exists, content_dir, tar_tree, produced,
                   extract_count, tree_hashes, tree_calls, idx, ret>>

----------------------------------------------------------------------------
(* archive_zip_remote_project, git_operations.py lines 424-473 *)

\* A cleanup that leaves the directory where it is.
RmTreeSkipped(dir_state) == dir_state

\* `finally: shutil.rmtree(tmp_dir, ignore_errors=True)`
RmTree(dir_state) == "removed"

\* `tmp_dir = Path(tempfile.mkdtemp())`, entered with the URL of --remote or
\* with the one get_remote_url returned.
MakeClone ==
    /\ entry_point = "_run_archive"
    /\ \/ pc = "start" /\ source = "remote"
       \/ pc = "remote"
    /\ clone' = "live"
    /\ pc' = "clone_init"
    /\ UNCHANGED <<args_vars, ids_vars, op_vars, pipeline_vars, source, os_environ, tool_envs, content_root, entry_point, tree_algos, archive_format, zip_tree, zip_layout,
                   zip_exists, tmp, content_dir, tar_tree, produced,
                   extract_count, tree_hashes, tree_calls, idx, error, failed_at, ret>>

\* One git command of the try block; a failure leaves through the finally.
CloneCommand(from, to) ==
    /\ pc = from
    /\ \/ /\ pc' = to
          /\ UNCHANGED <<tmp, error, failed_at, clone>>
       \/ /\ \E fault \in ToolFaults : Raise(GitFailure(fault), "snapshot")
          /\ clone' = RmTree(clone)
    /\ UNCHANGED <<args_vars, ids_vars, op_vars, pipeline_vars, source, os_environ, tool_envs, content_root, entry_point, tree_algos, archive_format, zip_tree, zip_layout,
                   zip_exists, content_dir, tar_tree, produced,
                   extract_count, tree_hashes, tree_calls, idx, ret>>

\* `git init tmp_repo`
CloneInit == CloneCommand("clone_init", "clone_remote_add")

\* `git remote add origin <url>`
CloneRemoteAdd == CloneCommand("clone_remote_add", "clone_fetch")

\* `git fetch --depth=1 origin <refspec>`
CloneFetch == CloneCommand("clone_fetch", "clone_archive")

\* `git archive --format=zip ... -o output_file tag`, the return, the finally
CloneArchive ==
    /\ pc = "clone_archive"
    /\ clone' = RmTree(clone)
    /\ \/ SnapshotDone
       \/ /\ \E fault \in ToolFaults : Raise(GitFailure(fault), "snapshot")
          /\ UNCHANGED zip_exists
    /\ UNCHANGED <<args_vars, ids_vars, op_vars, pipeline_vars, source, os_environ, tool_envs, content_root, entry_point, tree_algos, archive_format, zip_tree, zip_layout,
                   content_dir, tar_tree, produced,
                   extract_count, tree_hashes, tree_calls, idx, ret>>

----------------------------------------------------------------------------
(* extract_zip, git_operations.py lines 489-501 *)

\* `if len(entries) == 1 and entries[0].is_dir(): return entries[0]`
ExtractedRoot(layout) == IF layout = "rootdir" THEN "subdir" ELSE "dest_dir"

ExtractZip ==
    /\ pc = "extract"
    /\ extract_count' = extract_count + 1
    /\ \/ /\ content_dir' = zip_tree
          /\ content_root' = ExtractedRoot(zip_layout)
          /\ idx' = 1
          /\ pc' = "tree"
          /\ UNCHANGED <<tmp, error, failed_at>>
       \/ /\ Raise("BadZipFile", "extract")
          /\ UNCHANGED <<content_dir, content_root, idx>>
    /\ UNCHANGED <<args_vars, ids_vars, op_vars, pipeline_vars, source, clone, os_environ, tool_envs, entry_point, tree_algos, archive_format, zip_tree, zip_layout,
                   zip_exists, tar_tree, produced,
                   tree_hashes, tree_calls, ret>>

----------------------------------------------------------------------------
(* The loop `for algo in tree_algos` (and _step_tree's comprehension)      *)

\* Enter compute_tree_hash for the next algorithm.
TreeNext ==
    /\ pc = "tree"
    /\ idx <= Len(tree_algos)
    /\ pc' = "git_check"
    /\ tree_calls' = Append(tree_calls,
            [fmt |-> TREE_ALGORITHMS[tree_algos[idx]], before |-> content_dir,
             after |-> content_dir, outcome |-> "running"])
    /\ UNCHANGED <<args_vars, ids_vars, op_vars, pipeline_vars, source, clone, os_environ, tool_envs, content_root, entry_point, tree_algos, archive_format, zip_tree, zip_layout,
                   zip_exists, tmp, content_dir, tar_tree, produced,
                   extract_count, tree_hashes, idx, error, failed_at, ret>>

\* A conversion that extracts the zip again for itself.
StepAfterTreesReextract == IF need_tar THEN "extract" ELSE "exit"

\* After the tree hashes, the conversion works on the same content_dir.
StepAfterTrees == IF need_tar THEN "tar" ELSE "exit"

\* The loop is over: convert, or leave with the zip.
TreeDone ==
    /\ pc = "tree"
    /\ idx > Len(tree_algos)
    /\ IF StepAfterTrees # "exit"
       THEN /\ pc' = StepAfterTrees
            /\ UNCHANGED <<tmp, ret>>
       ELSE /\ tmp' = "removed"
            /\ IF entry_point = "process_project_archive"
               THEN /\ pc' = "done"
                    /\ ret' = [path |-> "zip", format |-> "zip",
                               tree_hashes |-> tree_hashes]
               ELSE /\ pc' = "display"
                    /\ UNCHANGED ret
    /\ UNCHANGED <<args_vars, ids_vars, op_vars, pipeline_vars, source, clone, os_environ, tool_envs, content_root, entry_point, tree_algos, archive_format, zip_tree, zip_layout,
                   zip_exists, content_dir, tar_tree, produced,
                   extract_count, tree_hashes, tree_calls, idx, error, failed_at>>

----------------------------------------------------------------------------
(* compute_tree_hash, git_operations.py lines 504-525 *)

\* A check that never sees the directory.
GitDirOverlooked(dir) == FALSE

\* `git_dir = content_dir / ".git"` and `git_dir.exists()`
GitDirExists(dir) == GIT_DIR \in dir

\* `if git_dir.exists(): raise GitError(...)`
TreeCheck ==
    /\ pc = "git_check"
    /\ IF GitDirExists(content_dir)
       THEN /\ Raise("GitError", "tree_precondition")
            /\ tree_calls' = CloseTreeCall("raised", content_dir)
       ELSE /\ pc' = "git_init"
            /\ UNCHANGED <<tmp, error, failed_at, tree_calls>>
    /\ UNCHANGED <<args_vars, ids_vars, op_vars, pipeline_vars, source, clone, os_environ, tool_envs, content_root, entry_point, tree_algos, archive_format, zip_tree, zip_layout,
                   zip_exists, content_dir, tar_tree, produced,
                   extract_count, tree_hashes, idx, ret>>

\* `git init --object-format=<fmt> .` creates .git in content_dir.
GitInit ==
    /\ pc = "git_init"
    /\ \/ /\ content_dir' = content_dir \cup {GIT_DIR}
          /\ pc' = "git_config_email"
          /\ UNCHANGED <<tmp, error, failed_at, tree_calls>>
       \/ /\ \E fault \in ToolFaults : Raise(GitFailure(fault), "tree")
          /\ tree_calls' = CloseTreeCall("raised", content_dir)
          /\ UNCHANGED content_dir
    /\ UNCHANGED <<args_vars, ids_vars, op_vars, pipeline_vars, source, clone, os_environ, tool_envs, content_root, entry_point, tree_algos, archive_format, zip_tree, zip_layout,
                   zip_exists, tar_tree, produced,
                   extract_count, tree_hashes, idx, ret>>

\* `git config user.email`, `git config user.name`, `git add --all`
GitCommand(from, to) ==
    /\ pc = from
    /\ \/ /\ pc' = to
          /\ UNCHANGED <<tmp, error, failed_at, tree_calls>>
       \/ /\ \E fault \in ToolFaults : Raise(GitFailure(fault), "tree")
          /\ tree_calls' = CloseTreeCall("raised", content_dir)
    /\ UNCHANGED <<args_vars, ids_vars, op_vars, pipeline_vars, source, clone, os_environ, tool_envs, content_root, entry_point, tree_algos, archive_format, zip_tree, zip_layout,
                   zip_exists, content_dir, tar_tree, produced,
                   extract_count, tree_hashes, idx, ret>>

GitConfigEmail == GitCommand("git_config_email", "git_config_name")

GitConfigName == GitCommand("git_config_name", "git_add")

GitAdd == GitCommand("git_add", "git_write_tree")

\* `return run_git_command(["write-tree"], ...)` and the caller's
\* `tree_hashes[algo] = ...`
GitWriteTree ==
    /\ pc = "git_write_tree"
    /\ \/ /\ tree_hashes' = (tree_algos[idx] :>
                    TreeHash(content_dir, TREE_ALGORITHMS[tree_algos[idx]]))
                    @@ tree_hashes
          /\ tree_calls' = CloseTreeCall("returned", content_dir)
          /\ idx' = idx + 1
          /\ pc' = "tree"
          /\ UNCHANGED <<tmp, error, failed_at>>
       \/ /\ \E fault \in ToolFaults : Raise(GitFailure(fault), "tree")
          /\ tree_calls' = CloseTreeCall("raised", content_dir)
          /\ UNCHANGED <<tree_hashes, idx>>
    /\ UNCHANGED <<args_vars, ids_vars, op_vars, pipeline_vars, source, clone, os_environ, tool_envs, content_root, entry_point, tree_algos, archive_format, zip_tree, zip_layout,
                   zip_exists, content_dir, tar_tree, produced,
                   extract_count, ret>>

----------------------------------------------------------------------------
(* pack_tar, git_operations.py lines 528-557 *)

\* The zip unlinked before the packaging tools have run.
ZipUnlinkedBeforePack(exists) == FALSE

\* pack_tar never touches zip_path: the unlink comes after it has returned.
ZipDuringPack(exists) == exists

\* `run_cmd(tar_cmd, check=True, env=env)`: packages content_dir as it is.
Tar ==
    /\ pc = "tar"
    /\ zip_exists' = ZipDuringPack(zip_exists)
    /\ tool_envs' = Append(tool_envs, [tool |-> "tar", env |-> PackEnv(os_environ)])
    /\ \/ /\ tar_tree' = content_dir
          /\ produced' = produced \cup {"tar"}
          /\ pc' = IF archive_format = "tar.gz" THEN "gzip" ELSE "unlink"
          /\ UNCHANGED <<tmp, error, failed_at>>
       \/ /\ \E fault \in ToolFaults : Raise(PackFailure(fault), "tar")
          /\ UNCHANGED <<tar_tree, produced>>
    /\ UNCHANGED <<args_vars, ids_vars, op_vars, pipeline_vars, source, clone, os_environ, content_root, entry_point, tree_algos, archive_format, zip_tree, zip_layout,
                   content_dir,
                   extract_count, tree_hashes, tree_calls, idx, ret>>

\* `run_cmd(["gzip"] + ... + [tar_path])`: gzip replaces file.tar by file.tar.gz
Gzip ==
    /\ pc = "gzip"
    /\ zip_exists' = ZipDuringPack(zip_exists)
    /\ tool_envs' = Append(tool_envs, [tool |-> "gzip", env |-> PackEnv(os_environ)])
    /\ \/ /\ produced' = (produced \ {"tar"}) \cup {"tar.gz"}
          /\ pc' = "unlink"
          /\ UNCHANGED <<tmp, error, failed_at>>
       \/ /\ \E fault \in ToolFaults : Raise(PackFailure(fault), "gzip")
          /\ UNCHANGED produced
    /\ UNCHANGED <<args_vars, ids_vars, op_vars, pipeline_vars, source, clone, os_environ, content_root, entry_point, tree_algos, archive_format, zip_tree, zip_layout,
                   content_dir, tar_tree,
                   extract_count, tree_hashes, tree_calls, idx, ret>>

\* `zip_path.unlink()` then `return tar_path, archive_format, tree_hashes`
\* (process_project_archive) or the update of result (_step_tar).
Unlink ==
    /\ pc = "unlink"
    /\ zip_exists' = FALSE
    /\ tmp' = "removed"
    /\ ret' = [path |-> archive_format, format |-> archive_format,
               tree_hashes |-> tree_hashes]
    /\ pc' = IF entry_point = "process_project_archive" THEN "done" ELSE "display"
    /\ UNCHANGED <<args_vars, ids_vars, op_vars, pipeline_vars, source, clone, os_environ, tool_envs, content_root, entry_point, tree_algos, archive_format, zip_tree, zip_layout,
                   content_dir, tar_tree, produced,
                   extract_count, tree_hashes, tree_calls, idx, error, failed_at>>

\* _step_display of _run_archive
Display ==
    /\ pc = "display"
    /\ pc' = "done"
    /\ ret' = IF ret = NoReturn
              THEN [path |-> "zip", format |-> "zip", tree_hashes |-> tree_hashes]
              ELSE ret
    /\ UNCHANGED <<args_vars, ids_vars, op_vars, pipeline_vars, source, clone, os_environ, tool_envs, content_root, entry_point, tree_algos, archive_format, zip_tree, zip_layout,
                   zip_exists, tmp, content_dir, tar_tree, produced,
                   extract_count, tree_hashes, tree_calls, idx, error, failed_at>>

ArchiveNext ==
    \/ Passthrough
    \/ EnterScratch
    \/ StepArchive
    \/ GetRemoteUrl
    \/ MakeClone
    \/ CloneInit
    \/ CloneRemoteAdd
    \/ CloneFetch
    \/ CloneArchive
    \/ ExtractZip
    \/ TreeNext
    \/ TreeDone
    \/ TreeCheck
    \/ GitInit
    \/ GitConfigEmail
    \/ GitConfigName
    \/ GitAdd
    \/ GitWriteTree
    \/ Tar
    \/ Gzip
    \/ Unlink
    \/ Display

----------------------------------------------------------------------------
(* Tool arguments.  An argument is the sequence of its characters.         *)

\* "--no-name"
NO_NAME == <<"-", "-", "n", "o", "-", "n", "a", "m", "e">>

\* "--best"
BEST == <<"-", "-", "b", "e", "s", "t">>

\* GZIP_DEFAULT_ARGS = ["--no-name", "--best"]
GZIP_DEFAULT_ARGS == <<NO_NAME, BEST>>

\* TAR_DEFAULT_ARGS, the eight arguments in source order
TAR_DEFAULT_ARGS ==
    << <<"-", "-", "s", "o", "r", "t", "=", "n", "a", "m", "e">>,
       <<"-", "-", "f", "o", "r", "m", "a", "t", "=", "p", "o", "s", "i", "x">>,
       <<"-", "-", "p", "a", "x", "-", "o", "p", "t", "i", "o", "n", "=", "e", "x", "t", "h", "d", "r", ".", "n", "a", "m", "e", "=", "%", "d", "/", "P", "a", "x", "H", "e", "a", "d", "e", "r", "s", "/", "%", "f", ",", "d", "e", "l", "e", "t", "e", "=", "a", "t", "i", "m", "e", ",", "d", "e", "l", "e", "t", "e", "=", "c", "t", "i", "m", "e">>,
       <<"-", "-", "m", "t", "i", "m", "e", "=", "1", "9", "7", "0", "-", "0", "1", "-", "0", "1", " ", "0", "0", ":", "0", "0", ":", "0", "0", "Z">>,
       <<"-", "-", "n", "u", "m", "e", "r", "i", "c", "-", "o", "w", "n", "e", "r">>,
       <<"-", "-", "o", "w", "n", "e", "r", "=", "0">>,
       <<"-", "-", "g", "r", "o", "u", "p", "=", "0">>,
       <<"-", "-", "m", "o", "d", "e", "=", "g", "o", "+", "u", ",", "g", "o", "-", "w">> >>

\* Arguments a user may put in ARCHIVE_TAR_EXTRA_ARGS / ARCHIVE_GZIP_EXTRA_ARGS:
\* --fast, --no-best, --name, -S.gz, -9, --owner=1, LEVEL=9, --best, --no-owner
UserArgChoices ==
    { BEST,
      <<"-", "-", "n", "o", "-", "o", "w", "n", "e", "r">>,
      <<"-", "-", "f", "a", "s", "t">>,
      <<"-", "-", "n", "o", "-", "b", "e", "s", "t">>,
      <<"-", "-", "n", "a", "m", "e">>,
      <<"-", "S", ".", "g", "z">>,
      <<"-", "9">>,
      <<"-", "-", "o", "w", "n", "e", "r", "=", "1">>,
      <<"L", "E", "V", "E", "L", "=", "9">> }

\* str.startswith
StartsWith(arg, prefix) ==
    /\ Len(arg) >= Len(prefix)
    /\ SubSeq(arg, 1, Len(prefix)) = prefix

\* arg[n:]
DropFirst(arg, n) == SubSeq(arg, n + 1, Len(arg))

\* arg.split("=")[0]
RECURSIVE BeforeEquals(_)
BeforeEquals(arg) ==
    IF arg = <<>> \/ Head(arg) = "=" THEN <<>>
    ELSE <<Head(arg)>> \o BeforeEquals(Tail(arg))

\* `"=" in arg`
HasEquals(arg) == \E i \in DOMAIN arg : arg[i] = "="

\* _arg_key
_arg_key(arg) ==
    IF StartsWith(arg, <<"-", "-">>) THEN DropFirst(BeforeEquals(arg), 2)
    ELSE IF StartsWith(arg, <<"-">>) /\ Len(arg) > 2 THEN SubSeq(arg, 1, 2)
    ELSE IF HasEquals(arg) THEN BeforeEquals(arg)
    ELSE arg

\* `arg.startswith("--no-")`: the argument is read as a removal entry
IsRemoval(arg) == StartsWith(arg, <<"-", "-", "n", "o", "-">>)

\* order.remove(key)
RemoveKey(order, key) == SelectSeq(order, LAMBDA k : k # key)

\* An iteration in which an overriding argument moves its key to the end.
DedupStepMoveToEnd(st, arg) ==
    IF IsRemoval(arg)
    THEN LET key == DropFirst(arg, 5)
         IN  IF key \in DOMAIN st.seen
             THEN [seen  |-> [k \in (DOMAIN st.seen) \ {key} |-> st.seen[k]],
                   order |-> RemoveKey(st.order, key)]
             ELSE st
    ELSE LET key == _arg_key(arg)
         IN  [seen  |-> (key :> arg) @@ st.seen,
              order |-> Append(RemoveKey(st.order, key), key)]

\* One iteration of the loop of dedup_args over state [seen, order].
DedupStep(st, arg) ==
    IF IsRemoval(arg)
    THEN LET key == DropFirst(arg, 5)
         IN  IF key \in DOMAIN st.seen
             THEN [seen  |-> [k \in (DOMAIN st.seen) \ {key} |-> st.seen[k]],
                   order |-> RemoveKey(st.order, key)]
             ELSE st
    ELSE LET key == _arg_key(arg)
         IN  [seen  |-> (key :> arg) @@ st.seen,
              order |-> IF key \in DOMAIN st.seen THEN st.order
                        ELSE Append(st.order, key)]

RECURSIVE DedupLoop(_, _)
DedupLoop(st, args) ==
    IF args = <<>> THEN st
    ELSE DedupLoop(DedupStep(st, Head(args)), Tail(args))

\* dedup_args(default_args, user_args)
dedup_args(default_args, user_args) ==
    LET st == DedupLoop([seen |-> <<>>, order |-> <<>>], default_args \o user_args)
    IN  [i \in 1..Len(st.order) |-> st.seen[st.order[i]]]

DefaultArgs(t) == IF t = "tar" THEN TAR_DEFAULT_ARGS ELSE GZIP_DEFAULT_ARGS

\* A warning issued only when the number of arguments changed.
BuildArgsWarnOnLength(t, v) ==
    LET result == dedup_args(DefaultArgs(t), v)
    IN  [result |-> result, warned |-> Len(result) # Len(DefaultArgs(t))]

\* _build_tar_args / _build_gzip_args: result and whether a warning is issued
BuildArgs(t, v) ==
    LET result == dedup_args(DefaultArgs(t), v)
    IN  [result |-> result, warned |-> result # DefaultArgs(t)]

ArgsInit ==
    /\ tool \in {"tar", "gzip"}
    /\ value = <<>>
    /\ merged = <<>>
    /\ warned = FALSE
    /\ args_pc = "config"

\* The user lists one more extra argument in the configuration.
AddUserArg ==
    /\ args_pc = "config"
    /\ Len(value) < MaxUserArgs
    /\ \E a \in UserArgChoices : value' = Append(value, a)
    /\ UNCHANGED <<tool, merged, warned, args_pc, archive_vars, ids_vars, op_vars, pipeline_vars>>

\* The option's transform runs when the configuration is loaded.
BuildToolArgs ==
    /\ args_pc = "config"
    /\ merged' = BuildArgs(tool, value).result
    /\ warned' = BuildArgs(tool, value).warned
    /\ args_pc' = "built"
    /\ UNCHANGED <<tool, value, archive_vars, ids_vars, op_vars, pipeline_vars>>

ArgsNext ==
    \/ AddUserArg
    \/ BuildToolArgs

----------------------------------------------------------------------------
(* Hashes and identifiers, archive_operation.py lines 53-166                *)

\* hashlib algorithms, numbered
HashlibCode(algorithm) ==
    CASE algorithm = "md5" -> 1
      [] algorithm = "sha1" -> 2
      [] algorithm = "sha256" -> 3

\* hexdigest of a file of the given content: distinct for distinct algorithms
\* and contents; sha256 orders the contents the other way round than md5/sha1.
FileHex(algorithm, content) ==
    <<HashlibCode(algorithm),
      IF algorithm = "sha256" THEN MaxContent + 1 - content ELSE content>>

\* git tree hash (hex) of the tree an archive of the given content holds
TreeHex(object_format, content) == <<3 + HashlibCode(object_format), content>>

\* hashlib.new(hashlib_algo, data).hexdigest() of a string of hex digits
Digest(hashlib_algo, data) == <<6 + HashlibCode(hashlib_algo)>> \o data

\* compute_file_hash: {"value": hex, "formatted_value": "algo:hex"}
compute_file_hash(content, algorithm) ==
    [value |-> FileHex(algorithm, content),
     formatted_value |-> <<algorithm, FileHex(algorithm, content)>>]

\* Python's `<` on strings
RECURSIVE StrLess(_, _)
StrLess(a, b) ==
    IF b = <<>> THEN FALSE
    ELSE IF a = <<>> THEN TRUE
    ELSE IF Head(a) # Head(b) THEN Head(a) < Head(b)
    ELSE StrLess(Tail(a), Tail(b))

RECURSIVE InsertSorted(_, _)
InsertSorted(x, s) ==
    IF s = <<>> THEN <<x>>
    ELSE IF StrLess(x, Head(s)) THEN <<x>> \o s
    ELSE <<Head(s)>> \o InsertSorted(x, Tail(s))

\* file_hashes left in enumeration order
Unsorted(file_hashes) == file_hashes

\* sorted(file_hashes)
RECURSIVE Sorted(_)
Sorted(file_hashes) ==
    IF file_hashes = <<>> THEN <<>>
    ELSE InsertSorted(Head(file_hashes), Sorted(Tail(file_hashes)))

\* "".join(strings)
RECURSIVE Join(_)
Join(strings) ==
    IF strings = <<>> THEN <<>> ELSE Head(strings) \o Join(Tail(strings))

\* Only the configured algorithms, without the two baseline ones.
OnlyConfiguredAlgos(algorithms) == Range(algorithms)

\* `all_algos = {"md5", "sha256"} | set(algorithms or [])`
AllAlgos(algorithms) == {"md5", "sha256"} \cup Range(algorithms)

\* Every entry sent to the file-hash branch.
NeverProject(entry) == FALSE

\* `if entry["type"] == "project":`
IsProject(entry) == entry.type = "project"

\* The fallback hashing with sha256 whatever the tree algorithm.
FallbackAlwaysSha256(algo) == "sha256"

\* `TREE_ALGORITHMS[algo]`, the digest of the fallback of line 123
FallbackDigest(algo) == TREE_ALGORITHMS[algo]

\* Hash set of one entry; ok is FALSE when a tree hash of a project entry was
\* not pre-computed (the ValueError of line 118).
EntryHashes(entry, algorithms) ==
    LET all_algos  == AllAlgos(algorithms)
        tree_algos_ == all_algos \cap TreeAlgoNames
        file_algos == all_algos \ tree_algos_
        missing    == {a \in tree_algos_ :
                          IsProject(entry) /\ a \notin DOMAIN entry.pre}
        hash_of(a) ==
            IF a \in file_algos THEN compute_file_hash(entry.content, a)
            ELSE IF IsProject(entry)
                 THEN [value |-> entry.pre[a], formatted_value |-> <<a, entry.pre[a]>>]
                 ELSE LET raw == compute_file_hash(entry.content, FallbackDigest(a))
                      IN  [value |-> raw.value, formatted_value |-> <<a, raw.value>>]
    IN  [ok |-> missing = {},
         entry |-> IF missing # {} THEN entry
                   ELSE [entry EXCEPT
                           !.hashes = [a \in all_algos |-> hash_of(a)],
                           !.pre = [a \in (DOMAIN entry.pre) \ tree_algos_ |-> entry.pre[a]]]]

\* compute_hashes: the entries in order, stopping at the first that raises
RECURSIVE compute_hashes(_, _)
compute_hashes(entries, algorithms) ==
    IF entries = <<>> THEN [ok |-> TRUE, results |-> <<>>]
    ELSE LET first == EntryHashes(Head(entries), algorithms)
         IN  IF ~first.ok THEN [ok |-> FALSE, results |-> entries]
             ELSE LET rest == compute_hashes(Tail(entries), algorithms)
                  IN  [ok |-> rest.ok, results |-> <<first.entry>> \o rest.results]

\* A selection that looks at the extension only.
MatchingByExtension(entries, types) ==
    SelectSeq(entries, LAMBDA e : e.extension \in types)

\* matching_entries of _compute_identifiers
MatchingEntries(entries, types) ==
    SelectSeq(entries, LAMBDA e : e.extension \in types \/ e.type \in types)

\* file_hashes for one algorithm
FileHashes(matching, algorithm) ==
    [i \in 1..Len(matching) |-> matching[i].hashes[algorithm].value]

\* TREE_ALGORITHMS.get(algorithm, algorithm)
HashlibAlgo(algorithm) ==
    IF algorithm \in TreeAlgoNames THEN TREE_ALGORITHMS[algorithm] ELSE algorithm

\* identifier_hash computed without the single-entry branch
IdentifierHashAlwaysFolded(algorithm, file_hashes) ==
    Digest(HashlibAlgo(algorithm), Join(Sorted(file_hashes)))

\* identifier_hash of lines 151-156
IdentifierHash(algorithm, file_hashes) ==
    IF Len(file_hashes) = 1 THEN file_hashes[1]
    ELSE Digest(HashlibAlgo(algorithm), Join(Sorted(file_hashes)))

\* What _compute_identifiers has not yet / has returned.
NotRun == [status |-> "not_run", items |-> <<>>]

\* _compute_identifiers(config, results)
_compute_identifiers(algorithms, types, entries) ==
    LET matching == MatchingEntries(entries, types)
    IN  IF matching = <<>> THEN [status |-> "None", items |-> <<>>]
        ELSE [status |-> "list",
              items |-> [k \in 1..Len(algorithms) |->
                  LET file_hashes == FileHashes(matching, algorithms[k])
                      identifier_hash == IdentifierHash(algorithms[k], file_hashes)
                  IN  [value |-> identifier_hash,
                       formatted_value |-> <<algorithms[k], identifier_hash>>,
                       type |-> algorithms[k],
                       files |-> file_hashes,
                       description |-> "sorted by hash value"]]]

IdAlgoChoices == {"md5", "sha256", "tree"}

IdTypeChoices == {"pdf", "project"}

\* Entries as archive() records them, before any hash is computed.  A project
\* entry carries the tree hashes _postprocess pre-computed, or none of them.
NewEntries(algorithms) ==
    LET requested == Range(algorithms) \cap TreeAlgoNames
        pre_of(c) == [a \in requested |-> TreeHex(TREE_ALGORITHMS[a], c)]
    IN  {[type |-> "main_file", extension |-> "pdf", content |-> c,
          pre |-> <<>>, hashes |-> <<>>] : c \in 1..MaxContent}
        \cup
        UNION {{[type |-> "project", extension |-> x, content |-> c,
                 pre |-> p, hashes |-> <<>>] :
                    x \in {"zip", "tar.gz"}, p \in {pre_of(c), <<>>}} :
               c \in 1..MaxContent}

IdsInit ==
    /\ hash_algorithms \in {a \in SeqsUpTo(IdAlgoChoices, 2) : NoDuplicates(a)}
    /\ id_types \in (SUBSET IdTypeChoices) \ {{}}
    /\ results \in SeqsUpTo(NewEntries(hash_algorithms), MaxEntries)
    /\ identifiers = NotRun
    /\ prev = [results |-> <<>>, identifiers |-> NotRun]
    /\ ids_pc = "entries"

\* compute_hashes(results, hash_algos) of _postprocess
ComputeHashes ==
    /\ ids_pc = "entries"
    /\ LET out == compute_hashes(results, hash_algorithms)
       IN  /\ results' = out.results
           /\ ids_pc' = IF out.ok THEN "hashed" ELSE "raised"
    /\ UNCHANGED <<hash_algorithms, id_types, identifiers, prev,
                   archive_vars, args_vars, op_vars, pipeline_vars>>

\* identifiers = _compute_identifiers(config, results)
ComputeIdentifiers ==
    /\ ids_pc = "hashed"
    /\ identifiers' = _compute_identifiers(hash_algorithms, id_types, results)
    /\ ids_pc' = "identified"
    /\ UNCHANGED <<hash_algorithms, id_types, results, prev,
                   archive_vars, args_vars, op_vars, pipeline_vars>>

\* The same entries are supplied again, two of them exchanged.
Reorder ==
    /\ ids_pc = "identified"
    /\ \E i, j \in DOMAIN results :
          /\ i < j
          /\ results' = [results EXCEPT ![i] = results[j], ![j] = results[i]]
    /\ prev' = [results |-> results, identifiers |-> identifiers]
    /\ identifiers' = NotRun
    /\ ids_pc' = "hashed"
    /\ UNCHANGED <<hash_algorithms, id_types, archive_vars, args_vars, op_vars, pipeline_vars>>

IdsNext ==
    \/ ComputeHashes
    \/ ComputeIdentifiers
    \/ Reorder

----------------------------------------------------------------------------
(* archive(config, tag_name) and _postprocess, archive_operation.py        *)
(* lines 169-249.  All files are named {project_name}-{tag}.<ext>, so a    *)
(* path is the pair of its directory and its extension.                    *)

NotReturned == [status |-> "none", results |-> <<>>,
                identifiers |-> [status |-> "not_run", items |-> <<>>]]

MainExtensions == {"pdf", "zip"}

OpAlgoChoices == {"sha256", "tree", "tree256"}

\* zenodo_identifier_hash, zenodo_identifier_types and hash_algorithms:
\* identifiers switched off by the flag, switched off by an empty type list,
\* or computed for some types and algorithms.
IdentifierConfigs ==
    {[hash |-> FALSE, types |-> {"project"}, algorithms |-> <<"tree">>],
     [hash |-> TRUE, types |-> {}, algorithms |-> <<"tree">>]}
    \cup
    {[hash |-> TRUE, types |-> t, algorithms |-> a] :
        t \in (SUBSET IdTypeChoices) \ {{}},
        a \in {x \in SeqsUpTo(OpAlgoChoices, MaxAlgorithms) :
                  x # <<>> /\ NoDuplicates(x)}}

\* Bytes of a file, by what wrote it.
FileContent(kind) ==
    CASE kind = "main" -> 1
      [] kind = "zip" -> 2
      [] kind = "tar" -> 3
      [] kind = "tar.gz" -> 4

\* The tagged tree as a number: one bit per file name.
TreeCode(tree) ==
    LET bit(i) == IF FileNames[i] \in tree THEN 2 ^ (i - 1) ELSE 0
    IN  bit(1) + bit(2) + bit(3) + bit(4)

\* The hex string `git write-tree` printed.
HexOfTree(h) == TreeHex(h.fmt, TreeCode(h.tree))

WriteFile(files, path, content) ==
    [q \in DOMAIN files \cup {path} |-> IF q = path THEN content ELSE files[q]]

RemoveFile(files, path) == [q \in DOMAIN files \ {path} |-> files[q]]

\* `if persist and config.archive_dir:` of archive_preview_file and
\* archive_zip_project; otherwise gettempdir() resp. a fresh mkdtemp().
OutputDir(persist, scratch) ==
    IF persist /\ config.archive_dir = "set" THEN "archive_dir" ELSE scratch

\* The state of the conversion before _postprocess calls it.
ProcessNotCalled ==
    /\ entry_point = "process_project_archive"
    /\ tree_algos = <<>>
    /\ zip_tree = Files
    /\ zip_layout = "rootdir"
    /\ zip_exists = FALSE
    /\ tmp = "none"
    /\ content_dir = {}
    /\ tar_tree = {}
    /\ produced = {}
    /\ extract_count = 0
    /\ tree_hashes = <<>>
    /\ tree_calls = <<>>
    /\ idx = 1
    /\ pc = "idle"
    /\ error = "none"
    /\ failed_at = "none"
    /\ content_root = "none"
    /\ ret = NoReturn
    /\ source = "zip_path"
    /\ clone = "none"
    /\ os_environ = [PATH |-> "/usr/bin"]
    /\ tool_envs = <<>>

OpInit ==
    /\ \E ext \in MainExtensions, idc \in IdentifierConfigs :
         \E types \in SUBSET {ext, "project"} :
           \E persist \in SUBSET types, dir \in {"unset", "set"} :
              config = [main_file_extension |-> ext,
                        archive_types |-> types,
                        persist_types |-> persist,
                        archive_dir |-> dir,
                        zenodo_identifier_hash |-> idc.hash,
                        zenodo_identifier_types |-> idc.types,
                        hash_algorithms |-> idc.algorithms]
    /\ archive_format \in ArchiveFormats
       \* the compiled main file is in compile_dir, or compilation left none
    /\ fs \in {<<>>, WriteFile(<<>>, <<"compile_dir", config.main_file_extension>>,
                              FileContent("main"))}
    /\ archive_results = <<>>
    /\ archive_pc = "start"
    /\ archive_error = "none"
    /\ archive_ret = NotReturned
    /\ ProcessNotCalled

\* An exception leaves archive(): nothing is returned.
OpRaise(kind) ==
    /\ archive_pc' = "raised"
    /\ archive_error' = kind
    /\ UNCHANGED archive_ret

\* A failure that is swallowed: archive() goes on to its next statement.
CarryOn(kind, next) ==
    /\ archive_pc' = next
    /\ UNCHANGED <<archive_error, archive_ret>>

\* No handler in archive() or _postprocess: the exception propagates.
Propagate(kind, next) == OpRaise(kind)

NewEntry(type, extension, path, persist) ==
    [type |-> type, extension |-> extension, file_path |-> path,
     persist |-> persist, content |-> 0, pre |-> <<>>, hashes |-> <<>>]

\* `if config.main_file_extension in config.archive_types:` with
\* archive_preview_file and the append of the main_file entry
PreviewFile ==
    /\ archive_pc = "start"
    /\ LET ext == config.main_file_extension
           persist_file == ext \in config.persist_types
           main_file == <<"compile_dir", ext>>
           new_file == <<OutputDir(persist_file, "tempdir"), ext>>
       IN  IF ext \notin config.archive_types
           THEN /\ archive_pc' = "project"
                /\ UNCHANGED <<fs, archive_results, archive_error, archive_ret>>
           ELSE IF main_file \notin DOMAIN fs
           THEN /\ Propagate("FileNotFoundError", "project")
                /\ UNCHANGED <<fs, archive_results>>
           ELSE /\ fs' = WriteFile(fs, new_file, fs[main_file])
                /\ archive_results' = Append(archive_results,
                        NewEntry("main_file", ext, new_file, persist_file))
                /\ archive_pc' = "project"
                /\ UNCHANGED <<archive_error, archive_ret>>
    /\ UNCHANGED <<config, archive_vars, args_vars, ids_vars, pipeline_vars>>

\* `if "project" in config.archive_types:` with archive_zip_project (one
\* `git archive -o output_file`) and the append of the project entry
ZipProject ==
    /\ archive_pc = "project"
    /\ LET persist_file == "project" \in config.persist_types
           output_file == <<OutputDir(persist_file, "mkdtemp"), "zip">>
       IN  IF "project" \notin config.archive_types
           THEN /\ archive_pc' = "postprocess"
                /\ UNCHANGED <<fs, archive_results, archive_error, archive_ret>>
           ELSE \/ /\ fs' = WriteFile(fs, output_file, FileContent("zip"))
                   /\ archive_results' = Append(archive_results,
                           NewEntry("project", "zip", output_file, persist_file))
                   /\ archive_pc' = "postprocess"
                   /\ UNCHANGED <<archive_error, archive_ret>>
                \/ /\ \E fault \in ToolFaults :
                         Propagate(GitFailure(fault), "postprocess")
                   /\ UNCHANGED <<fs, archive_results>>
    /\ UNCHANGED <<config, archive_vars, args_vars, ids_vars, pipeline_vars>>

\* `hash_algos = config.hash_algorithms if (config.zenodo_identifier_hash and
\* config.zenodo_identifier_types) else []`
IdentifiersEnabled ==
    config.zenodo_identifier_hash /\ config.zenodo_identifier_types # {}

hash_algos == IF IdentifiersEnabled THEN config.hash_algorithms ELSE <<>>

\* `project_entry = next((e for e in results if e["type"] == "project"), None)`
ProjectIndex ==
    IF \E i \in DOMAIN archive_results : archive_results[i].type = "project"
    THEN CHOOSE i \in DOMAIN archive_results :
            /\ archive_results[i].type = "project"
            /\ \A j \in 1..(i - 1) : archive_results[j].type # "project"
    ELSE 0

\* No tree algorithm handed to process_project_archive.
NoTreeAlgos(algos) == <<>>

\* `tree_algos = [a for a in hash_algos if a in TREE_ALGORITHMS]`
TreeAlgosOf(algos) == SelectSeq(algos, LAMBDA a : a \in TreeAlgoNames)

\* _postprocess up to the call of process_project_archive on the project entry
Postprocess ==
    /\ archive_pc = "postprocess"
    /\ IF ProjectIndex = 0
       THEN /\ archive_pc' = "hash"
            /\ UNCHANGED <<tree_algos, zip_exists, pc>>
       ELSE /\ tree_algos' = TreeAlgosOf(hash_algos)
            /\ zip_exists' = (archive_results[ProjectIndex].file_path \in DOMAIN fs)
            /\ pc' = "start"
            /\ archive_pc' = "processing"
    /\ UNCHANGED <<config, fs, archive_results, archive_error, archive_ret,
                   args_vars, ids_vars, pipeline_vars,
                   entry_point, archive_format, zip_tree, zip_layout, tmp,
                   content_dir, tar_tree, produced, extract_count, tree_hashes,
                   tree_calls, idx, error, failed_at, content_root, ret, source,
                   clone, os_environ, tool_envs>>

\* The disk after process_project_archive: the zip if it was not unlinked,
\* and what tar and gzip produced next to it.
DiskAfterProcess ==
    LET zip_path == archive_results[ProjectIndex].file_path
        kept == IF zip_exists THEN fs ELSE RemoveFile(fs, zip_path)
        with_tar == IF "tar" \in produced
                    THEN WriteFile(kept, <<zip_path[1], "tar">>, FileContent("tar"))
                    ELSE kept
    IN  IF "tar.gz" \in produced
        THEN WriteFile(with_tar, <<zip_path[1], "tar.gz">>, FileContent("tar.gz"))
        ELSE with_tar

\* process_project_archive returned: the three assignments to project_entry
ProcessReturned ==
    /\ archive_pc = "processing"
    /\ pc = "done"
    /\ fs' = DiskAfterProcess
    /\ archive_results' =
          [archive_results EXCEPT ![ProjectIndex] =
              [@ EXCEPT !.file_path = <<@[1], ret.path>>,
                        !.extension = ret.format,
                        !.pre = [a \in DOMAIN ret.tree_hashes |->
                                    HexOfTree(ret.tree_hashes[a])]]]
    /\ archive_pc' = "hash"
    /\ UNCHANGED <<config, archive_error, archive_ret,
                   archive_vars, args_vars, ids_vars, pipeline_vars>>

\* process_project_archive raised
ProcessRaised ==
    /\ archive_pc = "processing"
    /\ pc = "raised"
    /\ fs' = DiskAfterProcess
    /\ Propagate(error, "hash")
    /\ UNCHANGED <<config, archive_results, archive_vars, args_vars, ids_vars, pipeline_vars>>

\* compute_hashes(results, hash_algos): every entry's file is read
OpComputeHashes ==
    /\ archive_pc = "hash"
    /\ IF \E i \in DOMAIN archive_results :
             archive_results[i].file_path \notin DOMAIN fs
       THEN /\ Propagate("FileNotFoundError", "identify")
            /\ UNCHANGED archive_results
       ELSE LET read == [i \in DOMAIN archive_results |->
                           [archive_results[i] EXCEPT
                               !.content = fs[archive_results[i].file_path]]]
                out == compute_hashes(read, hash_algos)
            IN  IF out.ok
                THEN /\ archive_results' = out.results
                     /\ archive_pc' = "identify"
                     /\ UNCHANGED <<archive_error, archive_ret>>
                ELSE /\ Propagate("ValueError", "identify")
                     /\ UNCHANGED archive_results
    /\ UNCHANGED <<config, fs, archive_vars, args_vars, ids_vars, pipeline_vars>>

\* The identifiers of _postprocess and `return results, identifiers`
OpReturn ==
    /\ archive_pc = "identify"
    /\ archive_ret' =
          [status |-> "returned",
           results |-> archive_results,
           identifiers |->
              IF IdentifiersEnabled
              THEN _compute_identifiers(config.hash_algorithms,
                                        config.zenodo_identifier_types,
                                        archive_results)
              ELSE [status |-> "None", items |-> <<>>]]
    /\ archive_pc' = "returned"
    /\ UNCHANGED <<config, fs, archive_results, archive_error,
                   archive_vars, args_vars, ids_vars, pipeline_vars>>

\* The steps of process_project_archive while archive() is inside it.
ProcessStep ==
    /\ archive_pc = "processing"
    /\ \/ Passthrough
       \/ EnterScratch
       \/ ExtractZip
       \/ TreeNext
       \/ TreeDone
       \/ TreeCheck
       \/ GitInit
       \/ GitConfigEmail
       \/ GitConfigName
       \/ GitAdd
       \/ GitWriteTree
       \/ Tar
       \/ Gzip
       \/ Unlink

OpNext ==
    \/ PreviewFile
    \/ ZipProject
    \/ Postprocess
    \/ ProcessStep
    \/ ProcessReturned
    \/ ProcessRaised
    \/ OpComputeHashes
    \/ OpReturn

----------------------------------------------------------------------------
(* sign_files and gpg_sign_file, gpg_operations.py lines 88-195.  A file   *)
(* name is the sequence of its dot-separated parts: demo-v1.0.0.tar.gz is  *)
(* <<"demo-v1", "0", "0", "tar", "gz">>.                                   *)

NotSigned == [status |-> "none", signatures |-> <<>>]

\* "{project_name}-{tag}" for project demo and tag v1.0.0
ArchiveName == <<"demo-v1", "0", "0">>

\* Extensions an entry of archive() can have: the main file's and the three
\* container formats.
EntryExtensions == {<<"pdf">>, <<"zip">>, <<"tar">>, <<"tar", "gz">>}

\* Entries as archive() returns them: file_path is dir / filename.extension.
SignableEntries ==
    {[filename |-> ArchiveName, extension |-> x, persist |-> p,
      file_path |-> [dir |-> IF p THEN "archive_dir" ELSE "tmp",
                     name |-> ArchiveName \o x],
      is_signature |-> FALSE] :
        x \in EntryExtensions, p \in BOOLEAN}

\* `armor = "--armor" in extra_args`
armor == "--armor" \in Range(extra_args)

\* sign_files: `sig_ext = "asc" if armor else "sig"`
sig_ext == IF armor THEN "asc" ELSE "sig"

\* pathlib's PurePath.suffix without its dot: the part after the last dot.
Suffix(name) == IF Len(name) >= 2 THEN <<name[Len(name)]>> ELSE <<>>

\* gpg_sign_file: `sig_path = file_path.parent / f"{file_path.name}{sig_ext}"`
SigPath(file_path) ==
    [dir |-> file_path.dir, name |-> Append(file_path.name, sig_ext)]

\* `sig_filename = f"{entry['filename']}.{entry['file_path'].suffix.lstrip('.')}.{sig_ext}"`
SigFilename(entry) ==
    entry.filename \o Suffix(entry.file_path.name) \o <<sig_ext>>

\* The dict appended to `signatures`
SignatureEntry(entry) ==
    [file_path |-> SigPath(entry.file_path),
     filename |-> SigFilename(entry),
     is_preview |-> FALSE,
     persist |-> entry["persist"],
     is_signature |-> TRUE]

SignInit ==
    /\ archived_files \in SeqsUpTo(SignableEntries, MaxEntries)
    /\ extra_args \in {<<"--armor">>, <<>>}
    /\ overwrite \in BOOLEAN
       \* a signature left by an earlier run next to the first file, or none
    /\ sig_files \in {{}} \cup
          {{[dir |-> e.file_path.dir, name |-> Append(e.file_path.name, x)]} :
              e \in Range(archived_files), x \in {"asc", "sig"}}
    /\ signatures = <<>>
    /\ sign_pc = "key_info"
    /\ sign_error = "none"
    /\ sign_ret = NotSigned

\* An exception leaves sign_files.
SignRaise(kind) ==
    /\ sign_pc' = "raised"
    /\ sign_error' = kind
    /\ UNCHANGED <<signatures, sign_ret>>

\* `key_info = get_gpg_key_info(gpg_uid)`: RuntimeError when no key is found
GetKeyInfo ==
    /\ sign_pc = "key_info"
    /\ \/ sign_pc' = "prompt" /\ UNCHANGED <<sign_error, signatures, sign_ret>>
       \/ SignRaise("RuntimeError")
    /\ UNCHANGED <<archived_files, extra_args, overwrite, sig_files,
                   archive_vars, args_vars, ids_vars, op_vars, confirm_vars,
                   release_vars, publish_vars>>

\* `response = input(...).strip().lower()`, drawn here as already normalised
UseThisKey ==
    /\ sign_pc = "prompt"
    /\ \E answer \in {"y", "yes", "", "n", "no"} :
          IF answer \in {"y", "yes", ""}
          THEN sign_pc' = "loop" /\ UNCHANGED <<sign_error, signatures, sign_ret>>
          ELSE SignRaise("RuntimeError")
    /\ UNCHANGED <<archived_files, extra_args, overwrite, sig_files,
                   archive_vars, args_vars, ids_vars, op_vars, confirm_vars,
                   release_vars, publish_vars>>

\* A failure caught in the loop, the signatures made so far returned.
ReturnSigned(kind) ==
    /\ sign_pc' = "returned"
    /\ sign_ret' = [status |-> "returned", signatures |-> signatures]
    /\ UNCHANGED <<archived_files, sign_error, signatures>>

\* No handler in the loop of sign_files: the exception ends the call.
SignFailure(kind) ==
    /\ SignRaise(kind)
    /\ UNCHANGED archived_files

\* One iteration of `for entry in archived_files`: gpg_sign_file, the two
\* checksums of the signature file, the append.
SignEntry ==
    /\ sign_pc = "loop"
    /\ Len(signatures) < Len(archived_files)
    /\ LET entry == archived_files[Len(signatures) + 1]
           sig_path == SigPath(entry.file_path)
       IN  IF sig_path \in sig_files /\ ~overwrite
           THEN \* `if sig_path.exists() and not overwrite: raise RuntimeError`
                /\ SignFailure("RuntimeError")
                /\ UNCHANGED sig_files
           ELSE \/ /\ sig_files' = sig_files \cup {sig_path}
                   /\ signatures' = Append(signatures, SignatureEntry(entry))
                   /\ UNCHANGED <<archived_files, sign_pc, sign_error, sign_ret>>
                \* gpg wrote a signature that does not verify, or by another key
                \/ /\ sig_files' = sig_files \cup {sig_path}
                   /\ SignFailure("RuntimeError")
                \* gpg wrote nothing: open(sig_path) fails
                \/ /\ SignFailure("FileNotFoundError")
                   /\ UNCHANGED sig_files
    /\ UNCHANGED <<extra_args, overwrite,
                   archive_vars, args_vars, ids_vars, op_vars, confirm_vars,
                   release_vars, publish_vars>>

\* `return signatures`
SignReturn ==
    /\ sign_pc = "loop"
    /\ Len(signatures) = Len(archived_files)
    /\ sign_ret' = [status |-> "returned", signatures |-> signatures]
    /\ sign_pc' = "returned"
    /\ UNCHANGED <<archived_files, extra_args, overwrite, sig_files, signatures,
                   sign_error, archive_vars, args_vars, ids_vars, op_vars, confirm_vars,
                   release_vars, publish_vars>>

SignNext ==
    \/ GetKeyInfo
    \/ UseThisKey
    \/ SignEntry
    \/ SignReturn

----------------------------------------------------------------------------
(* _prompt, _make_validator and _confirm, pipeline/release.py lines 26-43. *)
(* A string is the sequence of its characters.                             *)

\* The characters of the strings the user types and of project names.
Alphabet == {"y", "Y", "e", "E", "s", " "}

\* str.lower() on one character
LowerChar(c) ==
    CASE c = "E" -> "e"
      [] c = "Y" -> "y"
      [] OTHER -> c

\* str.lower()
Lower(str) == [i \in DOMAIN str |-> LowerChar(str[i])]

RECURSIVE LStrip(_)
LStrip(str) ==
    IF str # <<>> /\ Head(str) = " " THEN LStrip(Tail(str)) ELSE str

RECURSIVE RStrip(_)
RStrip(str) ==
    IF str # <<>> /\ str[Len(str)] = " "
    THEN RStrip(SubSeq(str, 1, Len(str) - 1))
    ELSE str

\* str.strip()
Strip(str) == RStrip(LStrip(str))

\* `lambda resp, _name: not resp or resp.lower() in ("y", "yes")`
LightValidator(resp, _name) ==
    resp = <<>> \/ Lower(resp) \in {<<"y">>, <<"y", "e", "s">>}

\* `lambda resp, _name: bool(resp) and resp.lower() == _name`
StrictValidator(resp, _name) ==
    resp # <<>> /\ Lower(resp) = _name

\* _make_validator(level), applied
Validator(level, resp, _name) ==
    IF level = "light"
    THEN LightValidator(resp, _name)
    ELSE StrictValidator(resp, _name)

\* _resolve_project_name: the configured name stripped, never empty.
ProjectNames ==
    {n \in SeqsUpTo(Alphabet, MaxName) : n # <<>> /\ Strip(n) = n}

ConfirmInit ==
    /\ prompt_validation_level \in {"strict", "light"}
    /\ project_name \in ProjectNames
    /\ typed = <<>>
    /\ response = <<>>
    /\ confirmed = "none"
    /\ confirm_pc = "prompt"

\* `_prompt`: `input(f"{msg}: ").strip()`
Prompt ==
    /\ confirm_pc = "prompt"
    /\ \E line \in SeqsUpTo(Alphabet, MaxTyped) :
          /\ typed' = line
          /\ response' = Strip(line)
    /\ confirm_pc' = "validate"
    /\ UNCHANGED <<prompt_validation_level, project_name, confirmed,
                   archive_vars, args_vars, ids_vars, op_vars, sign_vars,
                   release_vars, publish_vars>>

\* `if not validator(response, project_name): step_abort(); return False`
\* `return True`
Confirm ==
    /\ confirm_pc = "validate"
    /\ confirmed' = IF Validator(prompt_validation_level, response, project_name)
                    THEN "yes" ELSE "no"
    /\ confirm_pc' = "returned"
    /\ UNCHANGED <<prompt_validation_level, project_name, typed, response,
                   archive_vars, args_vars, ids_vars, op_vars, sign_vars,
                   release_vars, publish_vars>>

ConfirmNext ==
    \/ Prompt
    \/ Confirm

----------------------------------------------------------------------------
(* run_release, _run_release and its steps, pipeline/release.py lines      *)
(* 57-310.  `steps` lists the steps in the order they were started.        *)

NotChecked == [status |-> "not_checked", up_to_date |-> FALSE, record_info |-> "None"]

NoRecord == [status |-> "not_returned", record_info |-> "None"]

\* The body of _run_release after setup_pipeline and _make_validator
StepOrder ==
    <<"git_check", "release", "commit_info", "compile", "git_check_again",
      "verify", "archive", "sign", "zenodo", "info">>

ReleaseInit ==
    /\ release_config \in [compile : BOOLEAN, gpg_sign : BOOLEAN,
                           has_zenodo_config : BOOLEAN,
                           zenodo_force_update : BOOLEAN,
                           zenodo_info_to_release : BOOLEAN, debug : BOOLEAN]
    /\ release_pc = "git_check"
    /\ steps = <<"git_check">>
    /\ release_error = "none"
    /\ is_up_to_date = NotChecked
    /\ publish_confirmed = "none"
    /\ publish_calls = 0
    /\ zenodo_ret = NoRecord

\* A step that fails and lets the pipeline go on with the next one.
StepFailureIgnored(kind, next) ==
    /\ release_pc' = next
    /\ steps' = Append(steps, next)
    /\ release_error' = kind

\* No step of _run_release catches: the exception leaves it.
StepFailure(kind, next) ==
    /\ release_pc' = "raised"
    /\ release_error' = kind
    /\ UNCHANGED steps

\* The step returns and _run_release calls the next one.
StepDone(next) ==
    /\ release_pc' = next
    /\ steps' = IF next = "done" THEN steps ELSE Append(steps, next)
    /\ UNCHANGED release_error

\* _step_git_check: check_on_main_branch and check_up_to_date raise GitError
GitCheck(at, next) ==
    /\ release_pc = at
    /\ \/ StepDone(next)
       \/ StepFailure("GitError", next)
    /\ UNCHANGED <<release_config, is_up_to_date, publish_confirmed,
                   publish_calls, zenodo_ret,
                   archive_vars, args_vars, ids_vars, op_vars, sign_vars,
                   confirm_vars, publish_vars>>

FirstGitCheck == GitCheck("git_check", "release")

\* _step_release: the latest commit has a release, or one is created
\* (check_tag_validity raises GitError, create_github_release GitHubError)
StepRelease ==
    /\ release_pc = "release"
    /\ \/ StepDone("commit_info")
       \/ \E kind \in {"GitError", "GitHubError"} :
             StepFailure(kind, "commit_info")
    /\ UNCHANGED <<release_config, is_up_to_date, publish_confirmed,
                   publish_calls, zenodo_ret,
                   archive_vars, args_vars, ids_vars, op_vars, sign_vars,
                   confirm_vars, publish_vars>>

\* _step_commit_info
StepCommitInfo ==
    /\ release_pc = "commit_info"
    /\ \/ StepDone("compile")
       \/ StepFailure("GitError", "compile")
    /\ UNCHANGED <<release_config, is_up_to_date, publish_confirmed,
                   publish_calls, zenodo_ret,
                   archive_vars, args_vars, ids_vars, op_vars, sign_vars,
                   confirm_vars, publish_vars>>

\* _step_compile: skipped when config.compile is off; aborted with
\* RuntimeError when the prompt is declined; make may fail.
StepCompile ==
    /\ release_pc = "compile"
    /\ IF ~release_config.compile
       THEN StepDone("git_check_again")
       ELSE \E accepted \in BOOLEAN :
               IF ~accepted
               THEN StepFailure("RuntimeError", "git_check_again")
               ELSE \/ StepDone("git_check_again")
                    \/ StepFailure("CalledProcessError", "git_check_again")
    /\ UNCHANGED <<release_config, is_up_to_date, publish_confirmed,
                   publish_calls, zenodo_ret,
                   archive_vars, args_vars, ids_vars, op_vars, sign_vars,
                   confirm_vars, publish_vars>>

SecondGitCheck == GitCheck("git_check_again", "verify")

\* verify_release_on_latest_commit raises GitHubError
VerifyRelease ==
    /\ release_pc = "verify"
    /\ \/ StepDone("archive")
       \/ StepFailure("GitHubError", "archive")
    /\ UNCHANGED <<release_config, is_up_to_date, publish_confirmed,
                   publish_calls, zenodo_ret,
                   archive_vars, args_vars, ids_vars, op_vars, sign_vars,
                   confirm_vars, publish_vars>>

\* _step_archive: archive(), then sign_files when config.gpg_sign
StepArchiveAndSign ==
    /\ release_pc \in {"archive", "sign"}
    /\ IF release_pc = "archive" /\ release_config.gpg_sign
       THEN \/ StepDone("sign")
            \/ \E kind \in {"FileNotFoundError", "GitError"} :
                  StepFailure(kind, "sign")
       ELSE \/ StepDone("zenodo")
            \/ StepFailure(IF release_pc = "sign" THEN "RuntimeError"
                           ELSE "GitError", "zenodo")
    /\ UNCHANGED <<release_config, is_up_to_date, publish_confirmed,
                   publish_calls, zenodo_ret,
                   archive_vars, args_vars, ids_vars, op_vars, sign_vars,
                   confirm_vars, publish_vars>>

\* _step_zenodo returns to _run_release
ZenodoReturn(record_info) ==
    /\ zenodo_ret' = [status |-> "returned", record_info |-> record_info]
    /\ StepDone("info")

\* `if not config.has_zenodo_config(): return None`, else
\* `up_to_date, msg, record_info = publisher.is_up_to_date(...)`
ZenodoCheck ==
    /\ release_pc = "zenodo"
    /\ IF ~release_config.has_zenodo_config
       THEN /\ ZenodoReturn("None")
            /\ UNCHANGED is_up_to_date
       ELSE \/ /\ \E up \in BOOLEAN, info \in {"None", "previous"} :
                     is_up_to_date' = [status |-> "checked", up_to_date |-> up,
                                       record_info |-> info]
               /\ release_pc' = "zenodo_decide"
               /\ UNCHANGED <<steps, release_error, zenodo_ret>>
            \/ /\ StepFailure("ZenodoError", "info")
               /\ UNCHANGED <<is_up_to_date, zenodo_ret>>
    /\ UNCHANGED <<release_config, publish_confirmed, publish_calls,
                   archive_vars, args_vars, ids_vars, op_vars, sign_vars,
                   confirm_vars, publish_vars>>

\* Publication asked for whatever the published state.
NoPublicationNever(up_to_date, zenodo_force_update) == FALSE

\* `if up_to_date and not config.zenodo_force_update:`
NoPublication(up_to_date, zenodo_force_update) ==
    up_to_date /\ ~zenodo_force_update

\* The two early returns of _step_zenodo: up to date, or prompt declined
ZenodoDecide ==
    /\ release_pc = "zenodo_decide"
    /\ IF NoPublication(is_up_to_date.up_to_date,
                        release_config.zenodo_force_update)
       THEN /\ ZenodoReturn(is_up_to_date.record_info)
            /\ UNCHANGED publish_confirmed
       ELSE \E accepted \in BOOLEAN :
               /\ publish_confirmed' = IF accepted THEN "yes" ELSE "no"
               /\ IF accepted
                  THEN /\ release_pc' = "zenodo_publish"
                       /\ UNCHANGED <<steps, release_error, zenodo_ret>>
                  ELSE ZenodoReturn(is_up_to_date.record_info)
    /\ UNCHANGED <<release_config, is_up_to_date, publish_calls,
                   archive_vars, args_vars, ids_vars, op_vars, sign_vars,
                   confirm_vars, publish_vars>>

\* `try: record_info = publisher.publish_new_version(...)`,
\* `except ZenodoError`, `finally: return record_info`: the return in the
\* finally clause also discards every other exception.
ZenodoPublish ==
    /\ release_pc = "zenodo_publish"
    /\ publish_calls' = publish_calls + 1
    /\ \/ ZenodoReturn("new")
       \/ ZenodoReturn(is_up_to_date.record_info)
    /\ UNCHANGED <<release_config, is_up_to_date, publish_confirmed,
                   archive_vars, args_vars, ids_vars, op_vars, sign_vars,
                   confirm_vars, publish_vars>>

\* _step_zenodo_info_to_release: nothing to do, or the info file is built
\* and uploaded to the release
StepZenodoInfo ==
    /\ release_pc = "info"
    /\ IF \/ ~release_config.zenodo_info_to_release
          \/ ~release_config.has_zenodo_config
          \/ zenodo_ret.record_info = "None"
       THEN StepDone("done")
       ELSE \/ StepDone("done")
            \/ StepFailure("GitHubError", "done")
    /\ UNCHANGED <<release_config, is_up_to_date, publish_confirmed,
                   publish_calls, zenodo_ret,
                   archive_vars, args_vars, ids_vars, op_vars, sign_vars,
                   confirm_vars, publish_vars>>

\* run_release: `except Exception as e: if config.debug: raise`, else the
\* error is reported.
RunReleaseExcept ==
    /\ release_pc = "raised"
    /\ release_pc' = IF release_config.debug THEN "reraised" ELSE "reported"
    /\ UNCHANGED <<release_config, steps, release_error, is_up_to_date,
                   publish_confirmed, publish_calls, zenodo_ret,
                   archive_vars, args_vars, ids_vars, op_vars, sign_vars,
                   confirm_vars, publish_vars>>

ReleaseNext ==
    \/ FirstGitCheck
    \/ StepRelease
    \/ StepCommitInfo
    \/ StepCompile
    \/ SecondGitCheck
    \/ VerifyRelease
    \/ StepArchiveAndSign
    \/ ZenodoCheck
    \/ ZenodoDecide
    \/ ZenodoPublish
    \/ StepZenodoInfo
    \/ RunReleaseExcept

----------------------------------------------------------------------------
(* publish_new_version and the requests it makes, zenodo_operations.py     *)
(* lines 13-433.  A file is known by its extension.                        *)

NoDraft == [state |-> "none", files |-> <<>>, version |-> "none"]

\* The files of the previous version, copied into a new version's draft.
PreviousFiles == <<"old.pdf", "old.zip">>

UploadExtensions == {"pdf", "zip", "asc"}

\* How a request can fail: the service answers with another status than the
\* expected one, or requests raises (no connection, timeout).
RequestFaults == {"status", "transport"}

\* `if response.status_code != ...: raise ZenodoError(...)`; an exception of
\* requests.get / post / put / delete is not caught.
RequestFailure(fault) ==
    IF fault = "status" THEN "ZenodoError" ELSE "ConnectionError"

\* `sorted(archived_files, key=lambda x: x[0].suffix.lower() != '.pdf')`:
\* a stable sort, the PDF files first.
sorted_files(files) ==
    SelectSeq(files, LAMBDA f : f = "pdf") \o
    SelectSeq(files, LAMBDA f : f # "pdf")

PublishInit ==
    /\ pub_files \in SeqsUpTo(UploadExtensions, MaxEntries)
    /\ stale_draft \in BOOLEAN
    /\ draft = NoDraft
    /\ pub_steps = <<>>
    /\ uploaded = 0
    /\ publish_count = 0
    /\ pub_pc \in {"latest_record"}
    /\ pub_error = "none"
    /\ pub_ret = "none"

\* An exception leaves publish_new_version.
PubRaise(kind) ==
    /\ pub_pc' = "raised"
    /\ pub_error' = kind
    /\ UNCHANGED <<pub_steps, pub_ret>>

\* The step is complete; on to the next one.
PubDone(step, next) ==
    /\ pub_pc' = next
    /\ pub_steps' = IF step = "" THEN pub_steps ELSE Append(pub_steps, step)
    /\ UNCHANGED <<pub_error, pub_ret>>

\* create_new_version: get_latest_record_from_doi
GetLatestRecord ==
    /\ pub_pc = "latest_record"
    /\ \/ PubDone("", "find_draft")
       \/ \E fault \in RequestFaults : PubRaise(RequestFailure(fault))
    /\ UNCHANGED <<pub_files, stale_draft, draft, uploaded, publish_count,
                   archive_vars, args_vars, ids_vars, op_vars, sign_vars,
                   confirm_vars, release_vars>>

\* create_new_version: find_draft_record, and discard_draft when a draft is
\* found.  A status other than 200 of the search reads as no draft; the
\* status of the discard is not looked at.
FindAndDiscardDraft ==
    /\ pub_pc = "find_draft"
    /\ \/ /\ \E found \in {stale_draft, FALSE}, discarded \in BOOLEAN :
                stale_draft' = (stale_draft /\ ~(found /\ discarded))
          /\ PubDone("", "new_version")
       \/ /\ PubRaise(RequestFailure("transport"))
          /\ UNCHANGED stale_draft
    /\ UNCHANGED <<pub_files, draft, uploaded, publish_count,
                   archive_vars, args_vars, ids_vars, op_vars, sign_vars,
                   confirm_vars, release_vars>>

\* create_new_version: POST .../actions/newversion, then get_draft_record
\* (`raise ZenodoError("Trying to edit existing version")`)
NewVersion ==
    /\ pub_pc = "new_version"
    /\ \/ /\ draft' = [state |-> "draft", files |-> PreviousFiles,
                       version |-> "previous"]
          /\ \/ PubDone("create", "list_files")
             \/ \E fault \in RequestFaults : PubRaise(RequestFailure(fault))
       \/ /\ \E fault \in RequestFaults : PubRaise(RequestFailure(fault))
          /\ UNCHANGED draft
    /\ UNCHANGED <<pub_files, stale_draft, uploaded, publish_count,
                   archive_vars, args_vars, ids_vars, op_vars, sign_vars,
                   confirm_vars, release_vars>>

\* delete_existing_files: GET .../files, then one DELETE per file
DeleteExistingFiles ==
    /\ pub_pc \in {"list_files", "delete"}
    /\ \/ /\ pub_pc = "list_files"
          /\ PubDone("", "delete")
          /\ UNCHANGED draft
       \/ /\ pub_pc = "delete"
          /\ draft.files # <<>>
          /\ draft' = [draft EXCEPT !.files = Tail(@)]
          /\ UNCHANGED <<pub_pc, pub_steps, pub_error, pub_ret>>
       \/ /\ pub_pc = "delete"
          /\ draft.files = <<>>
          /\ PubDone("delete", "upload")
          /\ UNCHANGED draft
       \/ /\ pub_pc = "list_files" \/ draft.files # <<>>
          /\ \E fault \in RequestFaults : PubRaise(RequestFailure(fault))
          /\ UNCHANGED draft
    /\ UNCHANGED <<pub_files, stale_draft, uploaded, publish_count,
                   archive_vars, args_vars, ids_vars, op_vars, sign_vars,
                   confirm_vars, release_vars>>

\* `for file_path, _ in sorted_files: upload_file(...)`
UploadFiles ==
    /\ pub_pc = "upload"
    /\ \/ /\ uploaded < Len(pub_files)
          /\ draft' = [draft EXCEPT
                          !.files = Append(@, sorted_files(pub_files)[uploaded + 1])]
          /\ uploaded' = uploaded + 1
          /\ UNCHANGED <<pub_pc, pub_steps, pub_error, pub_ret>>
       \/ /\ uploaded = Len(pub_files)
          /\ PubDone("upload", "metadata")
          /\ UNCHANGED <<draft, uploaded>>
       \/ /\ uploaded < Len(pub_files)
          /\ \/ \E fault \in RequestFaults : PubRaise(RequestFailure(fault))
             \* `with open(file_path, "rb") as f:`
             \/ PubRaise("FileNotFoundError")
          /\ UNCHANGED <<draft, uploaded>>
    /\ UNCHANGED <<pub_files, stale_draft, publish_count,
                   archive_vars, args_vars, ids_vars, op_vars, sign_vars,
                   confirm_vars, release_vars>>

\* update_metadata: GET the deposition, PUT it back with the version set
UpdateMetadata ==
    /\ pub_pc = "metadata"
    /\ \/ /\ draft' = [draft EXCEPT !.version = "tag_name"]
          /\ PubDone("metadata", "publish")
       \/ /\ \E fault \in RequestFaults : PubRaise(RequestFailure(fault))
          /\ UNCHANGED draft
    /\ UNCHANGED <<pub_files, stale_draft, uploaded, publish_count,
                   archive_vars, args_vars, ids_vars, op_vars, sign_vars,
                   confirm_vars, release_vars>>

\* publish_deposition, then `return doi`
PublishDeposition ==
    /\ pub_pc = "publish"
    /\ \/ /\ draft' = [draft EXCEPT !.state = "published"]
          /\ publish_count' = publish_count + 1
          /\ pub_pc' = "returned"
          /\ pub_steps' = Append(pub_steps, "publish")
          /\ pub_ret' = "doi"
          /\ UNCHANGED pub_error
       \/ /\ \E fault \in RequestFaults : PubRaise(RequestFailure(fault))
          /\ UNCHANGED <<draft, publish_count>>
    /\ UNCHANGED <<pub_files, stale_draft, uploaded,
                   archive_vars, args_vars, ids_vars, op_vars, sign_vars,
                   confirm_vars, release_vars>>

PublishNext ==
    \/ GetLatestRecord
    \/ FindAndDiscardDraft
    \/ NewVersion
    \/ DeleteExistingFiles
    \/ UploadFiles
    \/ UpdateMetadata
    \/ PublishDeposition

----------------------------------------------------------------------------
(* Specifications *)

\* No conversion running.
ArchiveIdle ==
    /\ entry_point = "process_project_archive"
    /\ tree_algos = <<>>
    /\ archive_format = "zip"
    /\ zip_tree = {}
    /\ zip_layout = "flat"
    /\ zip_exists = FALSE
    /\ tmp = "none"
    /\ content_dir = {}
    /\ tar_tree = {}
    /\ produced = {}
    /\ extract_count = 0
    /\ tree_hashes = <<>>
    /\ tree_calls = <<>>
    /\ idx = 1
    /\ pc = "idle"
    /\ error = "none"
    /\ failed_at = "none"
    /\ content_root = "none"
    /\ ret = NoReturn
    /\ source = "zip_path"
    /\ clone = "none"
    /\ os_environ = <<>>
    /\ tool_envs = <<>>

\* No configuration being loaded.
ArgsIdle ==
    /\ tool = "gzip"
    /\ value = <<>>
    /\ merged = <<>>
    /\ warned = FALSE
    /\ args_pc = "idle"

\* No entry list being processed.
IdsIdle ==
    /\ hash_algorithms = <<>>
    /\ id_types = {}
    /\ results = <<>>
    /\ identifiers = NotRun
    /\ prev = [results |-> <<>>, identifiers |-> NotRun]
    /\ ids_pc = "idle"

\* No archive() call running.
OpIdle ==
    /\ config = <<>>
    /\ fs = <<>>
    /\ archive_results = <<>>
    /\ archive_pc = "idle"
    /\ archive_error = "none"
    /\ archive_ret = NotReturned

\* sign_files not called.
SignIdle ==
    /\ archived_files = <<>>
    /\ extra_args = <<>>
    /\ overwrite = FALSE
    /\ sig_files = {}
    /\ signatures = <<>>
    /\ sign_pc = "idle"
    /\ sign_error = "none"
    /\ sign_ret = NotSigned

\* _confirm not called.
ConfirmIdle ==
    /\ prompt_validation_level = "strict"
    /\ project_name = <<>>
    /\ typed = <<>>
    /\ response = <<>>
    /\ confirmed = "none"
    /\ confirm_pc = "idle"

\* _run_release not called.
ReleaseIdle ==
    /\ release_config = [compile |-> FALSE, gpg_sign |-> FALSE,
                         has_zenodo_config |-> FALSE,
                         zenodo_force_update |-> FALSE,
                         zenodo_info_to_release |-> FALSE, debug |-> FALSE]
    /\ release_pc = "idle"
    /\ steps = <<>>
    /\ release_error = "none"
    /\ is_up_to_date = NotChecked
    /\ publish_confirmed = "none"
    /\ publish_calls = 0
    /\ zenodo_ret = NoRecord

\* publish_new_version not called.
PublishIdle ==
    /\ pub_files = <<>>
    /\ stale_draft = FALSE
    /\ draft = NoDraft
    /\ pub_steps = <<>>
    /\ uploaded = 0
    /\ publish_count = 0
    /\ pub_pc = "idle"
    /\ pub_error = "none"
    /\ pub_ret = "none"

PipelineIdle == SignIdle /\ ConfirmIdle /\ ReleaseIdle /\ PublishIdle

\* Nothing of the archive construction running.
ConstructionIdle == ArchiveIdle /\ ArgsIdle /\ IdsIdle /\ OpIdle

Init == ArchiveInit /\ ArgsIdle /\ IdsIdle /\ OpIdle /\ PipelineIdle

Next == ArchiveNext

Spec == Init /\ [][Next]_vars

InitArgs == ArgsInit /\ ArchiveIdle /\ IdsIdle /\ OpIdle /\ PipelineIdle

SpecArgs == InitArgs /\ [][ArgsNext]_vars

InitIds == IdsInit /\ ArchiveIdle /\ ArgsIdle /\ OpIdle /\ PipelineIdle

SpecIds == InitIds /\ [][IdsNext]_vars

InitOp == OpInit /\ ArgsIdle /\ IdsIdle /\ PipelineIdle

SpecOp == InitOp /\ [][OpNext]_vars

InitSign ==
    SignInit /\ ConstructionIdle /\ ConfirmIdle /\ ReleaseIdle /\ PublishIdle

InitConfirm ==
    ConfirmInit /\ ConstructionIdle /\ SignIdle /\ ReleaseIdle /\ PublishIdle

SpecConfirm == InitConfirm /\ [][ConfirmNext]_vars

InitRelease ==
    ReleaseInit /\ ConstructionIdle /\ SignIdle /\ ConfirmIdle /\ PublishIdle

SpecRelease == InitRelease /\ [][ReleaseNext]_vars

InitPublish ==
    PublishInit /\ ConstructionIdle /\ SignIdle /\ ConfirmIdle /\ ReleaseIdle

SpecPublish == InitPublish /\ [][PublishNext]_vars

SpecSign == InitSign /\ [][SignNext]_vars

----------------------------------------------------------------------------
(* Properties of the conversion *)

Ended == pc \in {"done", "raised"}

\* Steps that fail only because an external tool or the zip itself fails.
ToolSteps == {"snapshot", "extract", "tree", "tar", "gzip"}

ReturnedZip == [path |-> "zip", format |-> "zip", tree_hashes |-> <<>>]

\* C1: process_project_archive called with several tree algorithms at once,
\* for any archive format, completes without error (no tool failing) and
\* returns a tree-hash map holding exactly one value per requested algorithm,
\* each the tree hash of the one extracted tree.
C1_AllTreeHashesReturned ==
    (/\ entry_point = "process_project_archive"
     /\ Cardinality(Range(tree_algos)) >= 2
     /\ Ended
     /\ failed_at \notin ToolSteps)
    => /\ pc = "done"
       /\ DOMAIN ret.tree_hashes = Range(tree_algos)
       /\ \A a \in Range(tree_algos) :
            ret.tree_hashes[a] = TreeHash(zip_tree, TREE_ALGORITHMS[a])

\* C2: the tar or tar.gz produced by the conversion, with or without tree
\* hashes requested in the same call, re-extracted, has the same tree hash as
\* the re-extracted zip: the tree in the tar is the tree of the zip.
C2_TarTreeIsZipTree ==
    (pc = "done" /\ need_tar)
    => /\ tar_tree = zip_tree
       /\ \A fmt \in {"sha1", "sha256"} :
            TreeHashOf(tar_tree, fmt) = TreeHashOf(zip_tree, fmt)

\* C3: after compute_tree_hash has returned or raised, content_dir is as it
\* was before the call: no .git directory, no added entry.
C3_ContentDirRestored ==
    \A i \in DOMAIN tree_calls :
        tree_calls[i].outcome # "running"
        => tree_calls[i].after = tree_calls[i].before

\* C4: extract_zip is invoked at most once in a call or run, and exactly once
\* when both a tree hash and a tar/tar.gz conversion are requested of a zip
\* that the snapshot step has produced.
C4_SingleExtraction ==
    /\ extract_count <= 1
    /\ (Ended /\ tree_algos # <<>> /\ need_tar /\ failed_at # "snapshot")
       => extract_count = 1

C4_Witness ==
    /\ pc = "done"
    /\ entry_point = "process_project_archive"
    /\ tree_algos # <<>> /\ need_tar
    /\ tree_calls # <<>>
    /\ archive_format \in produced
    /\ extract_count = 1

\* C5: with no tree algorithm and format zip, process_project_archive returns
\* the zip path, format "zip" and an empty map, extracts nothing, creates no
\* temporary directory and leaves the zip in place.
C5_NoOpPassthrough ==
    (/\ entry_point = "process_project_archive"
     /\ tree_algos = <<>> /\ archive_format = "zip"
     /\ pc # "start")
    => /\ pc = "done"
       /\ ret = ReturnedZip
       /\ error = "none"
       /\ extract_count = 0
       /\ tmp = "none"
       /\ zip_exists

C5_Witness ==
    /\ entry_point = "process_project_archive"
    /\ tree_algos = <<>> /\ archive_format = "zip"
    /\ pc = "done"
    /\ ret = ReturnedZip

\* C6: the zip is deleted only after tar (and gzip for tar.gz) has completed:
\* whenever tree hashing, tar or gzip fails, the zip still exists when the
\* error reaches the caller, and a deleted zip means the converted file is
\* there.
C6_ZipKeptUntilConverted ==
    /\ (pc = "raised" /\ failed_at \in {"tree", "tree_precondition", "tar", "gzip"})
       => zip_exists
    /\ (extract_count > 0 /\ ~zip_exists)
       => (need_tar /\ archive_format \in produced)

C6_Witness ==
    /\ pc = "raised"
    /\ failed_at = "gzip"
    /\ produced = {"tar"}
    /\ zip_exists

----------------------------------------------------------------------------
(* Properties of the argument merge *)

\* C7: with no user gzip arguments, _build_gzip_args returns the default list
\* unchanged, which contains --no-name; and --no-name stays in the merged
\* gzip arguments as long as the user lists no removal entry.
C7_GzipKeepsNoName ==
    (args_pc = "built" /\ tool = "gzip")
    => /\ (value = <<>> => merged = GZIP_DEFAULT_ARGS)
       /\ ((\A i \in DOMAIN value : ~IsRemoval(value[i]))
           => \E j \in DOMAIN merged : merged[j] = NO_NAME)

----------------------------------------------------------------------------
(* Properties of the identifiers *)

MatchingNow == MatchingEntries(results, id_types)

Count(s, x) == Cardinality({i \in DOMAIN s : s[i] = x})

\* The arrangement of s in nondecreasing order.
SortedArrangement(s) ==
    CHOOSE t \in [1..Len(s) -> Range(s)] :
        /\ \A i \in 1..(Len(s) - 1) : ~StrLess(t[i + 1], t[i])
        /\ \A x \in Range(s) : Count(t, x) = Count(s, x)

\* C8: with two or more matching entries, each Identifier value is the digest
\* (by the algorithm, or by the underlying digest of a tree algorithm) of the
\* per-entry hash values sorted and concatenated, and is the same as the run
\* on the same entries in another order returned.
C8_OrderIndependentValue ==
    (ids_pc = "identified" /\ Len(MatchingNow) >= 2)
    => /\ identifiers.status = "list"
       /\ \A k \in DOMAIN identifiers.items :
            /\ identifiers.items[k].value =
                 Digest(HashlibAlgo(hash_algorithms[k]),
                        Join(SortedArrangement(
                                FileHashes(MatchingNow, hash_algorithms[k]))))
            /\ prev.identifiers.status = "list"
               => identifiers.items[k].value = prev.identifiers.items[k].value

C8_Witness ==
    /\ ids_pc = "identified"
    /\ Len(MatchingNow) >= 2
    /\ prev.identifiers.status = "list"
    /\ identifiers.status = "list"
    /\ MatchingEntries(prev.results, id_types) # MatchingNow
    /\ \E k \in DOMAIN identifiers.items :
          /\ FileHashes(MatchingNow, hash_algorithms[k])
               # FileHashes(MatchingEntries(prev.results, id_types), hash_algorithms[k])
          /\ identifiers.items[k].value = prev.identifiers.items[k].value

\* C9: with exactly one matching entry, each Identifier value is that entry's
\* own hash value for the algorithm, not hashed again.
C9_SingleEntryPassthrough ==
    (ids_pc = "identified" /\ Len(MatchingNow) = 1)
    => /\ identifiers.status = "list"
       /\ Len(identifiers.items) = Len(hash_algorithms)
       /\ \A k \in DOMAIN identifiers.items :
            identifiers.items[k].value
              = MatchingNow[1].hashes[hash_algorithms[k]].value

C9_Witness ==
    /\ ids_pc = "identified"
    /\ Len(MatchingNow) = 1
    /\ Len(results) = 2
    /\ identifiers.status = "list"
    /\ Len(identifiers.items) >= 1
    /\ identifiers.items[1].value = MatchingNow[1].hashes[hash_algorithms[1]].value

\* The list as archive() builds it: the main file entry, then the project entry.
AsArchived(entries) ==
    \/ Len(entries) <= 1
    \/ /\ Len(entries) = 2
       /\ entries[1].type = "main_file"
       /\ entries[2].type = "project"

\* C10: the files attribute of every Identifier is the per-file hash values
\* in sorted order, whatever the order of the entries.
C10_FilesSorted ==
    (ids_pc = "identified" /\ identifiers.status = "list" /\ AsArchived(results))
    => \A k \in DOMAIN identifiers.items :
          identifiers.items[k].files
            = SortedArrangement(FileHashes(MatchingNow, hash_algorithms[k]))

\* C11: _compute_identifiers returns None when no entry's extension or type
\* is in the selector set; otherwise one Identifier per requested algorithm,
\* in order, with type the algorithm name and formatted_value
\* "<algorithm>:<value>".
C11_NoneOrOnePerAlgorithm ==
    ids_pc = "identified"
    => IF \A i \in DOMAIN results :
             results[i].extension \notin id_types /\ results[i].type \notin id_types
       THEN identifiers.status = "None"
       ELSE /\ identifiers.status = "list"
            /\ Len(identifiers.items) = Len(hash_algorithms)
            /\ \A k \in DOMAIN identifiers.items :
                 /\ identifiers.items[k].type = hash_algorithms[k]
                 /\ identifiers.items[k].formatted_value
                      = <<hash_algorithms[k], identifiers.items[k].value>>

C11_Witness ==
    /\ ids_pc = "identified"
    /\ id_types = {"project"}
    /\ Len(results) = 2
    /\ results[1].type = "main_file" /\ results[2].type = "project"
    /\ identifiers.status = "list"
    /\ Len(identifiers.items) = 2
    /\ identifiers.items[2].type = hash_algorithms[2]

\* C12: once compute_hashes has returned, every entry holds a hash for both
\* baseline algorithms md5 and sha256, with no extra algorithm and with extra
\* ones alike.
C12_BaselineHashes ==
    ids_pc \in {"hashed", "identified"}
    => \A i \in DOMAIN results :
          /\ {"md5", "sha256"} \subseteq DOMAIN results[i].hashes
          /\ \A a \in {"md5", "sha256"} :
                results[i].hashes[a] = compute_file_hash(results[i].content, a)

C12_Witness ==
    /\ ids_pc = "hashed"
    /\ hash_algorithms = <<>>
    /\ Len(results) = 2
    /\ \A i \in DOMAIN results : DOMAIN results[i].hashes = {"md5", "sha256"}

C14_MissingTreeHashRaises ==
    [][/\ \A i \in DOMAIN results :
            (/\ ids_pc = "entries"
             /\ results[i].type = "project"
             /\ \E a \in Range(hash_algorithms) \cap TreeAlgoNames :
                   a \notin DOMAIN results[i].pre)
            => /\ ids_pc' = "raised"
               /\ results'[i].hashes = <<>>
       /\ ids_pc = "raised" => results' = results]_vars

C14_Witness ==
    /\ ids_pc = "raised"
    /\ Len(results) = 2
    /\ results[1].hashes # <<>>
    /\ results[2].type = "project"
    /\ results[2].pre = <<>>
    /\ results[2].hashes = <<>>

\* C15: compute_tree_hash entered on a content_dir that already holds .git
\* raises GitError as its next step: no git command runs (the call never
\* reaches git init or a later command) and content_dir is left as it was.
C15_FailFastOnGitDir ==
    [][(pc = "git_check" /\ GIT_DIR \in content_dir)
       => /\ pc' = "raised"
          /\ error' = "GitError"
          /\ failed_at' = "tree_precondition"
          /\ content_dir' = content_dir
          /\ tree_hashes' = tree_hashes]_vars

C15_Witness ==
    /\ pc = "raised"
    /\ failed_at = "tree_precondition"
    /\ error = "GitError"
    /\ tree_calls # <<>>
    /\ GIT_DIR \in tree_calls[Len(tree_calls)].before
    /\ tree_calls[Len(tree_calls)].after = tree_calls[Len(tree_calls)].before
    /\ tree_calls[Len(tree_calls)].outcome = "raised"

C18_ReproducibleEnv ==
    \A i \in DOMAIN tool_envs :
        /\ tool_envs[i].tool \in {"tar", "gzip"}
        /\ "LC_ALL" \in DOMAIN tool_envs[i].env
        /\ "TZ" \in DOMAIN tool_envs[i].env
        /\ "SOURCE_DATE_EPOCH" \in DOMAIN tool_envs[i].env
        /\ tool_envs[i].env["LC_ALL"] = "C"
        /\ tool_envs[i].env["TZ"] = "UTC"
        /\ tool_envs[i].env["SOURCE_DATE_EPOCH"] = "0"
        /\ tool_envs[i].env["PATH"] = os_environ["PATH"]

C18_Witness ==
    /\ pc = "done"
    /\ "TZ" \in DOMAIN os_environ
    /\ os_environ["TZ"] = "Europe/Paris"
    /\ Len(tool_envs) = 2
    /\ tool_envs[1].tool = "tar"
    /\ tool_envs[2].tool = "gzip"
    /\ tool_envs[2].env["TZ"] = "UTC"

----------------------------------------------------------------------------
(* The argument merge as an ordered map *)

AllArgs == DefaultArgs(tool) \o value

\* Key an argument at position i of the input writes (non-removal entries).
WrittenKey(i) == _arg_key(AllArgs[i])

\* Position of the last removal entry for a key, 0 if there is none.
LastRemoval(key) ==
    LET at == {i \in DOMAIN AllArgs :
                  IsRemoval(AllArgs[i]) /\ DropFirst(AllArgs[i], 5) = key}
    IN  IF at = {} THEN 0 ELSE CHOOSE i \in at : \A j \in at : j <= i

\* Positions that write a key and are not followed by a removal of it.
Live == {i \in DOMAIN AllArgs :
            ~IsRemoval(AllArgs[i]) /\ LastRemoval(WrittenKey(i)) < i}

\* Of the live positions of each key, the first (its place) and the last (its value).
FirstLive == {i \in Live : \A j \in Live : WrittenKey(j) = WrittenKey(i) => i <= j}

LastLiveOf(i) ==
    CHOOSE j \in Live : /\ WrittenKey(j) = WrittenKey(i)
                        /\ \A k \in Live : WrittenKey(k) = WrittenKey(i) => k <= j

\* The n-th smallest element of a set of positions.
RECURSIVE NthSmallest(_, _)
NthSmallest(S, n) ==
    LET m == CHOOSE x \in S : \A y \in S : x <= y
    IN  IF n = 1 THEN m ELSE NthSmallest(S \ {m}, n - 1)

\* The ordered map read out: one argument per surviving key, keys in the
\* order of their first insertion, each with the last value written to it.
OrderedMapResult ==
    [n \in 1..Cardinality(FirstLive) |-> AllArgs[LastLiveOf(NthSmallest(FirstLive, n))]]

\* C19: dedup_args(defaults, user) is the read-out of an ordered map to which
\* the defaults and then the user entries were applied in order: a later
\* argument of the same key replaces the value in place, --no-X deletes key X
\* and is itself never emitted, and the result has at most one argument per
\* key, in first-insertion order of the surviving keys.
C19_OrderedMapWithOverride ==
    args_pc = "built"
    => /\ merged = OrderedMapResult
       /\ \A i \in DOMAIN merged : ~IsRemoval(merged[i])
       /\ \A i, j \in DOMAIN merged :
             _arg_key(merged[i]) = _arg_key(merged[j]) => i = j

\* --owner=1 replaces --owner=0 at its place, the sixth of the tar defaults.
C19_Witness ==
    /\ args_pc = "built"
    /\ tool = "tar"
    /\ Len(value) = 2
    /\ IsRemoval(value[1])
    /\ Len(merged) = Len(TAR_DEFAULT_ARGS)
    /\ merged[6] = <<"-", "-", "o", "w", "n", "e", "r", "=", "1">>
    /\ merged[7] = TAR_DEFAULT_ARGS[7]

\* The user's entry at position i is the last one to touch its key.
LastWord(i) ==
    LET key == IF IsRemoval(value[i]) THEN DropFirst(value[i], 5)
               ELSE _arg_key(value[i])
    IN  \A j \in DOMAIN value :
            j > i => /\ ~(IsRemoval(value[j]) /\ DropFirst(value[j], 5) = key)
                     /\ ~(~IsRemoval(value[j]) /\ _arg_key(value[j]) = key)

\* C20: _build_tar_args / _build_gzip_args return the merged list with the
\* user's arguments applied (an argument given last for its key is in the
\* list, a key removed last is absent from it), and whenever a default
\* argument is missing from the list or the list differs from the defaults in
\* any way, the reproducibility warning was issued.
C20_OverrideWarnedAndApplied ==
    args_pc = "built"
    => /\ \A i \in DOMAIN value :
             LastWord(i) =>
                IF IsRemoval(value[i])
                THEN \A j \in DOMAIN merged :
                        _arg_key(merged[j]) # DropFirst(value[i], 5)
                ELSE \E j \in DOMAIN merged : merged[j] = value[i]
       /\ (\E d \in Range(DefaultArgs(tool)) : d \notin Range(merged)) => warned
       /\ merged # DefaultArgs(tool) => warned

C20_Witness ==
    /\ args_pc = "built"
    /\ tool = "tar"
    /\ value = << <<"-", "-", "o", "w", "n", "e", "r", "=", "1">> >>
    /\ warned
    /\ TAR_DEFAULT_ARGS[6] \notin Range(merged)
    /\ value[1] \in Range(merged)

----------------------------------------------------------------------------
(* Properties of archive() *)

\* The entry types the configuration asks for, in the order archive() builds them.
ConfiguredEntries ==
    (IF config.main_file_extension \in config.archive_types
     THEN <<"main_file">> ELSE <<>>)
    \o (IF "project" \in config.archive_types THEN <<"project">> ELSE <<>>)

\* C16: archive() returns nothing unless it returns everything.  What it
\* returns holds one entry per configured archive type, each with its file on
\* disk and a hash for md5, sha256 and every identifier algorithm, together
\* with the identifiers; any failure (main file missing, git archive,
\* extraction, tree hash, tar, gzip, hashing) ends in an exception with
\* nothing returned, and no step runs on after a failed one.
C16_AllOrNothing ==
    /\ archive_pc # "returned" => archive_ret = NotReturned
    /\ archive_error # "none" => archive_pc = "raised"
    /\ pc = "raised" => archive_pc \in {"processing", "raised"}
    /\ archive_pc \notin {"start", "raised"}
       => Len(archive_results) >= Len(ConfiguredEntries) - 1
    /\ archive_pc \notin {"start", "project", "raised"}
       => [i \in DOMAIN archive_results |-> archive_results[i].type]
             = ConfiguredEntries
    /\ archive_pc = "returned"
       => /\ archive_error = "none"
          /\ archive_ret.status = "returned"
          /\ [i \in DOMAIN archive_ret.results |-> archive_ret.results[i].type]
                = ConfiguredEntries
          /\ \A i \in DOMAIN archive_ret.results :
                LET e == archive_ret.results[i]
                IN  /\ e.file_path \in DOMAIN fs
                    /\ e.hashes # <<>>
                    /\ DOMAIN e.hashes = {"md5", "sha256"} \cup Range(hash_algos)
                    /\ e.type = "project" => e.extension = archive_format
          /\ archive_ret.identifiers.status
                = IF IdentifiersEnabled
                     /\ \E i \in DOMAIN archive_ret.results :
                           \/ archive_ret.results[i].type
                                 \in config.zenodo_identifier_types
                           \/ archive_ret.results[i].extension
                                 \in config.zenodo_identifier_types
                  THEN "list" ELSE "None"

\* gzip fails after both entries were recorded: the list is not returned.
C16_Witness ==
    /\ archive_pc = "raised"
    /\ archive_error = "CalledProcessError"
    /\ failed_at = "gzip"
    /\ Len(archive_results) = 2
    /\ archive_ret = NotReturned

----------------------------------------------------------------------------
(* Subprocess failures *)

\* C21: a failure of a subprocess of the archive operation (git for the
\* snapshot, tar, gzip), by non-zero exit or by a missing executable, reaches
\* the caller as the one archive-operation error kind the code defines,
\* GitError, and the failed command was the last one run (nothing is re-run:
\* the scratch directory is gone and no later step has acted).
C21_SingleErrorKind ==
    (pc = "raised" /\ failed_at \in {"snapshot", "tar", "gzip"})
    => /\ error = "GitError"
       /\ tmp # "live"
       /\ ret = NoReturn

----------------------------------------------------------------------------
(* Where archive() leaves its files *)

\* C22: every entry archive() returns with persist = true has its file in the
\* archive directory, under {project_name}-{tag}.<ext> with <ext> the entry's
\* final extension (after a conversion to tar / tar.gz as well).
C22_PersistedInArchiveDir ==
    archive_pc = "returned"
    => \A i \in DOMAIN archive_ret.results :
          LET e == archive_ret.results[i]
          IN  e.persist => /\ e.file_path = <<"archive_dir", e.extension>>
                           /\ e.file_path \in DOMAIN fs

----------------------------------------------------------------------------
(* Properties of the signatures *)

\* C23: sign_files returns one signature entry per input entry, in the same
\* order (the i-th signs the i-th file), each with is_signature = true and
\* the persist flag of the entry it signs; when signing an entry fails,
\* nothing is returned.
C23_OneSignaturePerEntry ==
    /\ sign_pc # "returned" => sign_ret = NotSigned
    /\ sign_error # "none" => sign_pc = "raised"
    /\ sign_pc = "returned"
       => /\ sign_error = "none"
          /\ Len(sign_ret.signatures) = Len(archived_files)
          /\ \A i \in DOMAIN archived_files :
                /\ sign_ret.signatures[i].is_signature
                /\ sign_ret.signatures[i].persist = archived_files[i].persist
                /\ sign_ret.signatures[i].file_path.dir = archived_files[i].file_path.dir
                /\ sign_ret.signatures[i].file_path.name
                      = Append(archived_files[i].file_path.name, sig_ext)
                /\ sign_ret.signatures[i].file_path \in sig_files

\* Two entries signed, one persisted and one not.
C23_Witness ==
    /\ sign_pc = "returned"
    /\ Len(archived_files) = 2
    /\ archived_files[1].persist /\ ~archived_files[2].persist
    /\ Len(sign_ret.signatures) = 2

\* C24: the name of a signature entry is
\* {project_name}-{tag}.{container_ext}.{sig_ext}: the signed entry's
\* filename, its full extension (zip, tar, tar.gz or the main file's), then
\* asc when --armor is in the gpg arguments and sig otherwise.
C24_SignatureName ==
    sign_pc = "returned"
    => \A i \in DOMAIN archived_files :
          sign_ret.signatures[i].filename
             = archived_files[i].filename \o archived_files[i].extension
                  \o <<IF "--armor" \in Range(extra_args) THEN "asc" ELSE "sig">>

----------------------------------------------------------------------------
(* Properties of the prompts *)

\* C28: with strict validation _confirm accepts whenever the user enters
\* the configured project name, whatever the letter case of that name, and
\* rejects the empty response and every response that is not the name (in
\* any letter case); with light validation it accepts exactly the empty
\* response, y and yes, in any letter case.
C28_Validation ==
    confirm_pc = "returned"
    => /\ prompt_validation_level = "strict"
          => /\ response = project_name => confirmed = "yes"
             /\ response = <<>> => confirmed = "no"
             /\ Lower(response) # Lower(project_name) => confirmed = "no"
       /\ prompt_validation_level = "light"
          => (confirmed = "yes"
                <=> Lower(response) \in {<<>>, <<"y">>, <<"y", "e", "s">>})

----------------------------------------------------------------------------
(* Properties of the release pipeline *)

\* The steps that must not run before the checks have passed.
LateSteps == {"archive", "sign", "zenodo", "info"}

\* The checks before the archive step, in the order of _run_release.
Checks == SubSeq(StepOrder, 1, 6)

\* C25: in every run of _run_release the archive step (and every step after
\* it) starts only after the git check, the release check or creation, the
\* compile step or its skip, the second git check and
\* verify_release_on_latest_commit have run, in this order and without
\* error; after a failure no further step starts and nothing is published.
C25_ArchiveAfterChecks ==
    /\ [](\A i \in DOMAIN steps :
             steps[i] \in LateSteps
             => /\ i > Len(Checks)
                /\ SubSeq(steps, 1, Len(Checks)) = Checks)
    /\ [](release_pc \in LateSteps => release_error = "none")
    /\ [][release_error # "none"
          => /\ steps' = steps
             /\ publish_calls' = publish_calls
             /\ release_error' = release_error]_vars

\* The release was verified after a compilation and the archive step runs.
C25_Witness ==
    /\ release_pc = "archive"
    /\ release_config.compile
    /\ steps = Append(Checks, "archive")
    /\ release_error = "none"

\* C26: _step_zenodo calls publish_new_version (once) only when a publisher
\* is configured, is_up_to_date answered not up to date or force update is
\* set, and the user confirmed the prompt; when the record is up to date
\* without force update, or the user declined, there is no publication call
\* and the record info of is_up_to_date is what is returned.
C26_PublishOnlyWhenNeeded ==
    /\ publish_calls <= 1
    /\ publish_calls = 1
       => /\ release_config.has_zenodo_config
          /\ is_up_to_date.status = "checked"
          /\ ~is_up_to_date.up_to_date \/ release_config.zenodo_force_update
          /\ publish_confirmed = "yes"
    /\ ( /\ zenodo_ret.status = "returned"
         /\ is_up_to_date.status = "checked"
         /\ \/ is_up_to_date.up_to_date /\ ~release_config.zenodo_force_update
            \/ publish_confirmed = "no" )
       => /\ publish_calls = 0
          /\ zenodo_ret.record_info = is_up_to_date.record_info

\* An up-to-date record published again under force update.
C26_Witness ==
    /\ zenodo_ret.status = "returned"
    /\ is_up_to_date.up_to_date
    /\ release_config.zenodo_force_update
    /\ publish_confirmed = "yes"
    /\ publish_calls = 1
    /\ zenodo_ret.record_info = "new"

----------------------------------------------------------------------------
(* Properties of the publication *)

\* The draft is published at most once, and only after it was created,
\* emptied of the previous version's files, filled with every archived
\* file and given its version, in that order; a call that fails leaves it
\* unpublished.
PublishedInOrder ==
    /\ publish_count <= 1
    /\ (draft.state = "published") = (publish_count = 1)
    /\ draft.state = "published"
       => /\ pub_steps = <<"create", "delete", "upload", "metadata", "publish">>
          /\ draft.files = sorted_files(pub_files)
          /\ draft.version = "tag_name"
          /\ pub_error = "none"
    /\ pub_error # "none" => draft.state # "published" /\ pub_pc = "raised"

\* C27: in publish_new_version the draft is published at most once per
\* call, and only after the new version draft was created, the files copied
\* from the previous version deleted, every archived file uploaded and the
\* version metadata updated, in that order; a failure of an earlier step
\* raises ZenodoError and leaves the draft unpublished.
C27_PublishOnceInOrder ==
    /\ PublishedInOrder
    /\ pub_error \in {"none", "ZenodoError"}

----------------------------------------------------------------------------
(* Properties of the entries of archive() *)

\* C29: two distinct entries returned by archive() never have the same file
\* path, whatever the configuration: the copy of the main file and the
\* project archive are not written to the same location.
C29_DistinctPaths ==
    archive_pc = "returned"
    => \A i, j \in DOMAIN archive_ret.results :
          i # j => archive_ret.results[i].file_path
                      # archive_ret.results[j].file_path

\* C30: in archive(), every tree algorithm requested for the identifiers is
\* pre-computed on the project entry before compute_hashes runs, and when
\* _compute_identifiers runs every entry it selects holds a hash for every
\* identifier algorithm; the ValueError for a tree hash not pre-computed does
\* not occur and no hash lookup misses.
C30_HashesBeforeIdentifiers ==
    /\ archive_error # "ValueError"
    /\ archive_pc = "hash"
       => \A i \in DOMAIN archive_results :
             archive_results[i].type = "project"
             => Range(hash_algos) \cap TreeAlgoNames
                   \subseteq DOMAIN archive_results[i].pre
    /\ (archive_pc \in {"identify", "returned"} /\ IdentifiersEnabled)
       => LET matching == MatchingEntries(archive_results,
                                          config.zenodo_identifier_types)
          IN  \A i \in DOMAIN matching :
                 Range(config.hash_algorithms) \subseteq DOMAIN matching[i].hashes

\* Identifiers over a tree algorithm and a file algorithm returned for a main
\* file and a project archive.
C30_Witness ==
    /\ archive_pc = "returned"
    /\ archive_ret.identifiers.status = "list"
    /\ Range(config.hash_algorithms) = {"tree256", "sha256"}
    /\ Len(MatchingEntries(archive_ret.results,
                           config.zenodo_identifier_types)) = 2

====
